---- MODULE Spec2Model ----
(***************************************************************************)
(* Revenue forecasting backend: the two calculators                        *)
(* (LargeCustomerCalculator, SMBCalculator), the assumptions provider      *)
(* (KnowledgeService) and the forecast router (create_forecast,            *)
(* _execute_calculation).                                                  *)
(*                                                                         *)
(* Numbers.  Python floats are modelled as exact signed decimals           *)
(*     [s |-> sign, m |-> digits, e |-> exponent]                          *)
(* with value  s * (m as a base-100 number, least significant digit        *)
(* first) / 100^e.  One base-100 digit is two decimal places, so           *)
(* round(x, 2) keeps exactly one fractional digit.  The sign 0 is Python's *)
(* None.  Every value is kept canonical (no high zero digits, no low zero  *)
(* fractional digits), so that = on records is numeric equality.           *)
(***************************************************************************)
EXTENDS Integers, Sequences, FiniteSets, TLC

None == [s |-> 0, m |-> <<>>, e |-> 0]
Zero == [s |-> 1, m |-> <<>>, e |-> 0]

(* ---- digit sequences (naturals, least significant digit first) ---- *)

RECURSIVE StripHigh(_)
StripHigh(ds) ==
    IF ds = <<>> THEN <<>>
    ELSE IF ds[Len(ds)] = 0 THEN StripHigh(SubSeq(ds, 1, Len(ds) - 1))
    ELSE ds

RECURSIVE Zeros(_)
Zeros(k) == IF k <= 0 THEN <<>> ELSE <<0>> \o Zeros(k - 1)

RECURSIVE NFromInt(_)
NFromInt(n) == IF n = 0 THEN <<>> ELSE <<n % 100>> \o NFromInt(n \div 100)

Digit(ds, i) == IF i <= Len(ds) THEN ds[i] ELSE 0

NMax(a, b) == IF a >= b THEN a ELSE b

RECURSIVE NAddFrom(_, _, _, _)
NAddFrom(a, b, i, carry) ==
    IF i > NMax(Len(a), Len(b))
    THEN (IF carry = 0 THEN <<>> ELSE <<carry>>)
    ELSE LET t == Digit(a, i) + Digit(b, i) + carry
         IN  <<t % 100>> \o NAddFrom(a, b, i + 1, t \div 100)

NAdd(a, b) == NAddFrom(a, b, 1, 0)

\* a - b for a >= b
RECURSIVE NSubFrom(_, _, _, _)
NSubFrom(a, b, i, borrow) ==
    IF i > Len(a) THEN <<>>
    ELSE LET t == Digit(a, i) - Digit(b, i) - borrow
         IN  IF t < 0 THEN <<t + 100>> \o NSubFrom(a, b, i + 1, 1)
             ELSE <<t>> \o NSubFrom(a, b, i + 1, 0)

NSub(a, b) == StripHigh(NSubFrom(a, b, 1, 0))

\* -1, 0, 1 as a < b, a = b, a > b (both without high zeros)
RECURSIVE NCmpFrom(_, _, _)
NCmpFrom(a, b, i) ==
    IF i = 0 THEN 0
    ELSE IF a[i] < b[i] THEN -1
    ELSE IF a[i] > b[i] THEN 1
    ELSE NCmpFrom(a, b, i - 1)

NCmp(a, b) ==
    IF Len(a) < Len(b) THEN -1
    ELSE IF Len(a) > Len(b) THEN 1
    ELSE NCmpFrom(a, b, Len(a))

\* a * k for one digit k
RECURSIVE NMulDigitFrom(_, _, _, _)
NMulDigitFrom(a, k, i, carry) ==
    IF i > Len(a)
    THEN (IF carry = 0 THEN <<>> ELSE <<carry>>)
    ELSE LET t == a[i] * k + carry
         IN  <<t % 100>> \o NMulDigitFrom(a, k, i + 1, t \div 100)

RECURSIVE NMulFrom(_, _, _)
NMulFrom(a, b, j) ==
    IF j > Len(b) THEN <<>>
    ELSE NAdd(Zeros(j - 1) \o NMulDigitFrom(a, b[j], 1, 0), NMulFrom(a, b, j + 1))

NMul(a, b) == StripHigh(NMulFrom(a, b, 1))

\* the value of a short digit sequence as an integer
RECURSIVE NToInt(_)
NToInt(ds) == IF ds = <<>> THEN 0 ELSE ds[1] + 100 * NToInt(Tail(ds))

(* ---- signed decimals ---- *)

RECURSIVE StripLow(_, _)
StripLow(ds, e) ==
    IF e > 0 /\ ds # <<>> /\ ds[1] = 0 THEN StripLow(Tail(ds), e - 1)
    ELSE [m |-> ds, e |-> e]

Norm(s, ds, e) ==
    LET hi == StripHigh(ds)
    IN  IF hi = <<>> THEN Zero
        ELSE LET lo == StripLow(hi, e) IN [s |-> s, m |-> lo.m, e |-> lo.e]

\* n / 100^e for an integer n
Dec(n, e) == IF n < 0 THEN Norm(-1, NFromInt(-n), e) ELSE Norm(1, NFromInt(n), e)

IsNone(x) == x.s = 0
IsZero(x) == x.s # 0 /\ x.m = <<>>

\* digits of x at exponent e >= x.e
Scaled(x, e) == Zeros(e - x.e) \o x.m

Neg(x) == IF IsZero(x) THEN x ELSE [x EXCEPT !.s = -x.s]

Add(x, y) ==
    LET e == NMax(x.e, y.e)
        a == Scaled(x, e)
        b == Scaled(y, e)
    IN  IF x.s = y.s THEN Norm(x.s, NAdd(a, b), e)
        ELSE IF NCmp(StripHigh(a), StripHigh(b)) >= 0
             THEN Norm(x.s, NSub(a, b), e)
             ELSE Norm(y.s, NSub(b, a), e)

Sub(x, y) == Add(x, Neg(y))

Mul(x, y) == Norm(x.s * y.s, NMul(x.m, y.m), x.e + y.e)

\* -1, 0, 1 as x < y, x = y, x > y
Cmp(x, y) ==
    LET d == Sub(x, y)
    IN  IF IsZero(d) THEN 0 ELSE d.s

Lt(x, y) == Cmp(x, y) < 0
Le(x, y) == Cmp(x, y) <= 0

One == Dec(1, 0)

\* ds \div d and the remainder dropped, for a small positive integer d
RECURSIVE NDivSmall(_, _, _, _)
NDivSmall(ds, d, i, rem) ==
    IF i = 0 THEN <<>>
    ELSE LET t == rem * 100 + ds[i]
         IN  NDivSmall(ds, d, i - 1, t % d) \o <<t \div d>>

\* Fractional base-100 digits a quotient is carried to (a float's finite
\* precision); the profiles of the model divide exactly within it.
DivDigits == 6

\* x / y, for y # 0 with a short mantissa
Div(x, y) ==
    LET d  == NToInt(y.m)
        n  == Zeros(DivDigits) \o x.m
        q  == NDivSmall(n, d, Len(n), 0)
        e  == x.e + DivDigits - y.e
    IN  IF e >= 0 THEN Norm(x.s * y.s, q, e)
        ELSE Norm(x.s * y.s, Zeros(-e) \o q, 0)

\* Python's round(x, 2): to the nearest hundredth, ties to the even one
Round2(x) ==
    IF x.e <= 1 THEN x
    ELSE LET k    == x.e - 1
             top  == Digit(x.m, k)
             rest == \E i \in 1..(k - 1) : Digit(x.m, i) # 0
             hi   == SubSeq(x.m, k + 1, Len(x.m))
             up   == \/ top > 50
                     \/ top = 50 /\ rest
                     \/ top = 50 /\ ~rest /\ Digit(hi, 1) % 2 = 1
         IN  Norm(x.s, IF up THEN NAdd(hi, <<1>>) ELSE hi, 1)

\* Python's round(x, 0): to the nearest integer, ties to the even one
Round0(x) ==
    IF x.e <= 0 THEN x
    ELSE LET k    == x.e
             top  == Digit(x.m, k)
             rest == \E i \in 1..(k - 1) : Digit(x.m, i) # 0
             hi   == SubSeq(x.m, k + 1, Len(x.m))
             up   == \/ top > 50
                     \/ top = 50 /\ rest
                     \/ top = 50 /\ ~rest /\ Digit(hi, 1) % 2 = 1
         IN  Norm(x.s, IF up THEN NAdd(hi, <<1>>) ELSE hi, 0)

(***************************************************************************)
(* The calculators                                                         *)
(***************************************************************************)

\* LargeCustomerCalculator.__init__ : the object's fields after construction
LargeCustomerCalculator ==
    [default_arpu        |-> Dec(16667, 0),
     onboarding_ramp     |-> <<1, 1, 2, 2, 3, 4, 5, 6, 7, 8, 9>>,
     default_growth_rate |-> Dec(5, 1),
     default_churn_rate  |-> Dec(2, 1)]

\* SMBCalculator.__init__
SMBCalculator ==
    [default_arpu            |-> Dec(5000, 0),
     default_marketing_spend |-> Dec(200000, 0),
     default_cac             |-> Dec(1250, 0),
     default_conversion_rate |-> Dec(45, 1),
     default_growth_rate     |-> Dec(3, 1),
     default_churn_rate      |-> Dec(5, 1)]

\* the keyword parameters calculate accepts besides timeframe_months
LargeParams == {"arpu", "growth_rate", "churn_rate"}
SMBParams ==
    {"arpu", "marketing_spend", "cac", "conversion_rate", "growth_rate", "churn_rate"}

\* Python's  x or default : None and 0 are both falsy
OrDefault(x, default) == IF IsNone(x) \/ IsZero(x) THEN default ELSE x

\* mutant: the retained share of the stock is taken for the churned one
ChurnedCustomersRetained(cumulative_customers, churn_rate) ==
    Mul(cumulative_customers, Sub(One, churn_rate))

\* churned_customers = cumulative_customers * churn_rate
ChurnedCustomers(cumulative_customers, churn_rate) ==
    Mul(cumulative_customers, churn_rate)

\* mutant: the stock is replaced by the month's net flow
UpdateCumulativeFlowOnly(cumulative_customers, new_customers, churned_customers) ==
    Sub(new_customers, churned_customers)

\* mutant: the update subtracts the month's net gain
UpdateCumulativeNetLoss(cumulative_customers, new_customers, churned_customers) ==
    Sub(cumulative_customers, Sub(new_customers, churned_customers))

\* cumulative_customers = cumulative_customers + new_customers - churned_customers
UpdateCumulative(cumulative_customers, new_customers, churned_customers) ==
    Sub(Add(cumulative_customers, new_customers), churned_customers)

\* mutant: revenue is computed from the stock as displayed, rounded
RevenueOfRoundedStock(cumulative_customers, arpu) ==
    Mul(Round2(cumulative_customers), arpu)

\* revenue = cumulative_customers * arpu
Revenue(cumulative_customers, arpu) == Mul(cumulative_customers, arpu)

\* mutant: the ramp is read one month late
LargeNewCustomersLateRamp(onboarding_ramp, month, growth_rate, monthly_data) ==
    IF month <= Len(onboarding_ramp)
    THEN Dec(onboarding_ramp[IF month > 1 THEN month - 1 ELSE 1], 0)
    ELSE IF month = Len(onboarding_ramp) + 1
         THEN Mul(Dec(onboarding_ramp[Len(onboarding_ramp)], 0), Add(One, growth_rate))
         ELSE Mul(monthly_data[Len(monthly_data)].new_customers, Add(One, growth_rate))

\* mutant: past the ramp, growth compounds on the customer stock
LargeNewCustomersOnStock(onboarding_ramp, month, growth_rate, monthly_data) ==
    IF month <= Len(onboarding_ramp)
    THEN Dec(onboarding_ramp[month], 0)
    ELSE IF month = Len(onboarding_ramp) + 1
         THEN Mul(Dec(onboarding_ramp[Len(onboarding_ramp)], 0), Add(One, growth_rate))
         ELSE Mul(monthly_data[Len(monthly_data)].cumulative_customers,
                  Add(One, growth_rate))

\* mutant: the first month past the ramp repeats the ramp's last entry
LargeNewCustomersFlatPastRamp(onboarding_ramp, month, growth_rate, monthly_data) ==
    IF month <= Len(onboarding_ramp)
    THEN Dec(onboarding_ramp[month], 0)
    ELSE IF month = Len(onboarding_ramp) + 1
         THEN Dec(onboarding_ramp[Len(onboarding_ramp)], 0)
         ELSE Mul(monthly_data[Len(monthly_data)].new_customers, Add(One, growth_rate))

\* new customers of a month of the enterprise calculator
LargeNewCustomers(onboarding_ramp, month, growth_rate, monthly_data) ==
    IF month <= Len(onboarding_ramp)
    THEN Dec(onboarding_ramp[month], 0)
    ELSE IF month = Len(onboarding_ramp) + 1
         THEN Mul(Dec(onboarding_ramp[Len(onboarding_ramp)], 0), Add(One, growth_rate))
         ELSE Mul(monthly_data[Len(monthly_data)].new_customers, Add(One, growth_rate))

\* mutant: the spend is grown in the first month too
SMBMarketingSpendFromFirst(marketing_spend, month, growth_rate) ==
    IF Lt(Zero, growth_rate)
    THEN Mul(marketing_spend, Add(One, growth_rate))
    ELSE marketing_spend

\* the spend of a month of the SMB calculator: grown from the second month on
SMBMarketingSpend(marketing_spend, month, growth_rate) ==
    IF month > 1 /\ Lt(Zero, growth_rate)
    THEN Mul(marketing_spend, Add(One, growth_rate))
    ELSE marketing_spend

\* mutant: every lead is counted as a new customer
SMBNewCustomersUnconverted(marketing_spend, cac, conversion_rate) ==
    Div(marketing_spend, cac)

\* new_customers = (marketing_spend / cac) * conversion_rate
SMBNewCustomers(marketing_spend, cac, conversion_rate) ==
    Mul(Div(marketing_spend, cac), conversion_rate)

\* mutant: the snapshot's month is the zero-based index
LargeSnapshotZeroBased(month, new_customers, churned_customers, cumulative_customers, revenue, arpu, growth_rate, churn_rate) ==
    [month                |-> month - 1,
     new_customers        |-> Round2(new_customers),
     churned_customers    |-> Round2(churned_customers),
     cumulative_customers |-> Round2(cumulative_customers),
     revenue              |-> Round2(revenue),
     arpu                 |-> arpu,
     growth_rate          |-> growth_rate,
     churn_rate           |-> churn_rate]

\* the dictionary appended to monthly_data by the enterprise calculator
LargeSnapshot(month, new_customers, churned_customers, cumulative_customers, revenue, arpu, growth_rate, churn_rate) ==
    [month                |-> month,
     new_customers        |-> Round2(new_customers),
     churned_customers    |-> Round2(churned_customers),
     cumulative_customers |-> Round2(cumulative_customers),
     revenue              |-> Round2(revenue),
     arpu                 |-> arpu,
     growth_rate          |-> growth_rate,
     churn_rate           |-> churn_rate]

\* the dictionary appended to monthly_data by the SMB calculator
SMBSnapshot(month, marketing_spend, new_customers, churned_customers, cumulative_customers, revenue, arpu, cac, conversion_rate, growth_rate, churn_rate) ==
    [month                |-> month,
     marketing_spend      |-> Round2(marketing_spend),
     new_customers        |-> Round2(new_customers),
     churned_customers    |-> Round2(churned_customers),
     cumulative_customers |-> Round2(cumulative_customers),
     revenue              |-> Round2(revenue),
     arpu                 |-> arpu,
     cac                  |-> cac,
     conversion_rate      |-> conversion_rate,
     growth_rate          |-> growth_rate,
     churn_rate           |-> churn_rate]

VARIABLES
    large_calculator,   \* the LargeCustomerCalculator object
    smb_calculator,     \* the SMBCalculator object
    frame,              \* the activation of calculate: its arguments and locals
    request,            \* the activation of create_forecast
    forecast_queries,   \* the ForecastQuery table
    forecast_results,   \* the ForecastResult table
    deployment,         \* which router serves, and whether the database can fail
    suspended,          \* the activations of create_forecast waiting at an await
    simple,             \* the activation of simple_main's create_forecast
    previous,           \* a list calculate returned earlier, kept by the caller
    reply,              \* the response of the last read or export request
    background_tasks,   \* the export tasks scheduled and not yet run
    auth_service,       \* the AuthService object
    simple_users        \* simple_main's users_db and the users table of Supabase

\* the state outside the forecast endpoints
aside == <<previous, reply, background_tasks, auth_service, simple_users>>

\* no call of calculate is active
IdleFrame ==
    [pc |-> "idle", kind |-> "none", caller |-> "none", args |-> <<>>,
     timeframe_months |-> 0, arpu |-> None, growth_rate |-> None,
     churn_rate |-> None, marketing_spend |-> None, cac |-> None,
     conversion_rate |-> None, month |-> 0, stock_before |-> Zero,
     new_customers |-> Zero, churned_customers |-> Zero,
     cumulative_customers |-> Zero, revenue |-> Zero, monthly_data |-> <<>>]

\* mutant: calculate stores the values it was passed as the new defaults
CalculatorStoringOverrides(self, kwargs) ==
    [name \in DOMAIN self |->
        LET passed == IF name = "onboarding_ramp" THEN None
                      ELSE IF name = "default_arpu" THEN "arpu"
                      ELSE IF name = "default_growth_rate" THEN "growth_rate"
                      ELSE IF name = "default_churn_rate" THEN "churn_rate"
                      ELSE IF name = "default_marketing_spend" THEN "marketing_spend"
                      ELSE IF name = "default_cac" THEN "cac"
                      ELSE "conversion_rate"
        IN  IF name # "onboarding_ramp" /\ passed \in DOMAIN kwargs
               /\ ~IsNone(kwargs[passed])
            THEN kwargs[passed] ELSE self[name]]

\* mutant: calculate keeps a passed arpu as the new default
CalculatorStoringArpu(self, kwargs) ==
    IF ~IsNone(kwargs.arpu) THEN [self EXCEPT !.default_arpu = kwargs.arpu] ELSE self

\* the calculator object after calculate(**kwargs): the effective values are
\* locals, the defaults held by self are not assigned
CalculatorAfterCall(self, kwargs) == self

Arg(kwargs, name) == IF name \in DOMAIN kwargs THEN kwargs[name] ELSE None

\* LargeCustomerCalculator.calculate up to the loop: the effective parameters
LargeEnter(self, caller, timeframe_months, kwargs) ==
    [IdleFrame EXCEPT
        !.pc = "loop", !.kind = "large", !.caller = caller, !.args = kwargs,
        !.timeframe_months = timeframe_months,
        !.arpu        = OrDefault(Arg(kwargs, "arpu"), self.default_arpu),
        !.growth_rate = OrDefault(Arg(kwargs, "growth_rate"), self.default_growth_rate),
        !.churn_rate  = OrDefault(Arg(kwargs, "churn_rate"), self.default_churn_rate)]

\* SMBCalculator.calculate up to the loop
SMBEnter(self, caller, timeframe_months, kwargs) ==
    [IdleFrame EXCEPT
        !.pc = "loop", !.kind = "smb", !.caller = caller, !.args = kwargs,
        !.timeframe_months = timeframe_months,
        !.arpu = OrDefault(Arg(kwargs, "arpu"), self.default_arpu),
        !.marketing_spend =
            OrDefault(Arg(kwargs, "marketing_spend"), self.default_marketing_spend),
        !.cac = OrDefault(Arg(kwargs, "cac"), self.default_cac),
        !.conversion_rate =
            OrDefault(Arg(kwargs, "conversion_rate"), self.default_conversion_rate),
        !.growth_rate = OrDefault(Arg(kwargs, "growth_rate"), self.default_growth_rate),
        !.churn_rate  = OrDefault(Arg(kwargs, "churn_rate"), self.default_churn_rate)]

\* one iteration of the enterprise calculator's loop
LargeMonth(self, f) ==
    LET month    == f.month + 1
        new      == LargeNewCustomers(self.onboarding_ramp, month, f.growth_rate,
                                      f.monthly_data)
        churned  == ChurnedCustomers(f.cumulative_customers, f.churn_rate)
        cum      == UpdateCumulative(f.cumulative_customers, new, churned)
        revenue  == Revenue(cum, f.arpu)
    IN  [f EXCEPT
            !.month = month,
            !.stock_before = f.cumulative_customers,
            !.new_customers = new,
            !.churned_customers = churned,
            !.cumulative_customers = cum,
            !.revenue = revenue,
            !.monthly_data = Append(@,
                LargeSnapshot(month, new, churned, cum, revenue,
                              f.arpu, f.growth_rate, f.churn_rate))]

\* one iteration of the SMB calculator's loop
SMBMonth(f) ==
    LET month    == f.month + 1
        spend    == SMBMarketingSpend(f.marketing_spend, month, f.growth_rate)
        new      == SMBNewCustomers(spend, f.cac, f.conversion_rate)
        churned  == ChurnedCustomers(f.cumulative_customers, f.churn_rate)
        cum      == UpdateCumulative(f.cumulative_customers, new, churned)
        revenue  == Revenue(cum, f.arpu)
    IN  [f EXCEPT
            !.month = month,
            !.stock_before = f.cumulative_customers,
            !.marketing_spend = spend,
            !.new_customers = new,
            !.churned_customers = churned,
            !.cumulative_customers = cum,
            !.revenue = revenue,
            !.monthly_data = Append(@,
                SMBSnapshot(month, spend, new, churned, cum, revenue, f.arpu,
                            f.cac, f.conversion_rate, f.growth_rate, f.churn_rate))]

RECURSIVE RunAlone(_, _)
\* calculate run to its return on a frame of its own
RunAlone(self, f) ==
    IF f.month >= f.timeframe_months THEN f.monthly_data
    ELSE RunAlone(self, IF f.kind = "large" THEN LargeMonth(self, f) ELSE SMBMonth(f))

(***************************************************************************)
(* Direct calls of the calculators, as the unit tests make them            *)
(***************************************************************************)

\* longest horizon of a direct call of the enterprise calculator
MaxMonths == 14
\* longest horizon of a direct call of the SMB calculator
MaxSMBMonths == 6

LargeArgs ==
    [arpu        : {None, Dec(20000, 0)},
     growth_rate : {None, Zero, Dec(10, 1), Dec(1250, 2), Dec(75, 1)},
     churn_rate  : {None, Zero, Dec(50, 1), Dec(99, 1), Dec(3, 0)}]

SMBArgs ==
    [arpu            : {None, Dec(4000, 0)},
     marketing_spend : {None, Dec(300000, 0)},
     cac             : {None, Dec(1000, 0)},
     conversion_rate : {None, Dec(50, 1)},
     growth_rate     : {None, Zero, Dec(10, 1), Dec(75, 1)},
     churn_rate      : {None, Zero, Dec(50, 1), Dec(3, 0)}]

CanCall == frame.pc = "idle"

\* the caller keeps no returned list
NotKeeping ==
    [keeping |-> FALSE, kind |-> "none", args |-> <<>>, timeframe_months |-> 0,
     monthly_data |-> <<>>]

\* the caller compares the lists of repeated calls
Repeating == previous.keeping

\* longest horizon of a repeated call
MaxRepeatMonths == 2

\* the arguments of repeated calls
RepeatLargeArgs ==
    [arpu : {None, Dec(20000, 0)}, growth_rate : {None, Dec(10, 1)}, churn_rate : {None}]

RepeatSMBArgs ==
    [arpu : {None, Dec(4000, 0)}, marketing_spend : {None}, cac : {None},
     conversion_rate : {None}, growth_rate : {None, Dec(10, 1)}, churn_rate : {None}]

\* raise exc inside the try block of create_forecast
Raise(req, exc) == [req EXCEPT !.pc = "raised", !.exc = exc]

\* a JSON string where a number is expected: truthy for `x or default`, and
\* float * str raises TypeError
Text == [s |-> 2, m |-> <<1>>, e |-> 0]
IsText(x) == x.s = 2

\* revenue = cumulative_customers * arpu raises in the first iteration when
\* arpu is a string
MonthRaises(f) == IsText(f.arpu)

\* large_calculator.calculate(timeframe_months=..., arpu=..., ...)
TestCallLarge ==
    /\ CanCall
    /\ \E t \in 1..(IF Repeating THEN MaxRepeatMonths ELSE MaxMonths) :
          \E kwargs \in IF Repeating THEN RepeatLargeArgs ELSE LargeArgs :
              /\ frame' = LargeEnter(large_calculator, "test", t, kwargs)
              /\ large_calculator' = CalculatorAfterCall(large_calculator, kwargs)
    /\ UNCHANGED <<smb_calculator, request, forecast_queries, forecast_results>>
    /\ UNCHANGED <<deployment, suspended, simple>>
    /\ UNCHANGED aside

\* smb_calculator.calculate(timeframe_months=..., ...)
TestCallSMB ==
    /\ CanCall
    /\ \E t \in 1..(IF Repeating THEN MaxRepeatMonths ELSE MaxSMBMonths) :
          \E kwargs \in IF Repeating THEN RepeatSMBArgs ELSE SMBArgs :
              /\ frame' = SMBEnter(smb_calculator, "test", t, kwargs)
              /\ smb_calculator' = CalculatorAfterCall(smb_calculator, kwargs)
    /\ UNCHANGED <<large_calculator, request, forecast_queries, forecast_results>>
    /\ UNCHANGED <<deployment, suspended, simple>>
    /\ UNCHANGED aside

\* for month in range(1, timeframe_months + 1): one iteration
CalcMonth ==
    /\ frame.pc = "loop"
    /\ frame.month < frame.timeframe_months
    /\ IF MonthRaises(frame)
       THEN /\ frame' = IdleFrame
            /\ request' = Raise(request, "TypeError")
       ELSE /\ frame' = IF frame.kind = "large"
                        THEN LargeMonth(large_calculator, frame)
                        ELSE SMBMonth(frame)
            /\ request' = request
    /\ UNCHANGED <<large_calculator, smb_calculator, forecast_queries, forecast_results>>
    /\ UNCHANGED <<deployment, suspended, simple>>
    /\ UNCHANGED aside

\* return monthly_data, to a direct caller
TestReturn ==
    /\ frame.pc = "loop"
    /\ frame.caller = "test"
    /\ frame.month >= frame.timeframe_months
    /\ frame' = [frame EXCEPT !.pc = "returned"]
    /\ UNCHANGED <<large_calculator, smb_calculator, request, forecast_queries, forecast_results>>
    /\ UNCHANGED <<deployment, suspended, simple>>
    /\ UNCHANGED aside

\* the returned list with the call that produced it
Kept(f) ==
    [keeping |-> TRUE, kind |-> f.kind, args |-> f.args,
     timeframe_months |-> f.timeframe_months, monthly_data |-> f.monthly_data]

\* the caller is done with the returned list; a caller that repeats calls
\* keeps this list or the one it kept before
TestDone ==
    /\ frame.pc = "returned"
    /\ frame' = IdleFrame
    /\ previous' \in IF Repeating THEN {previous, Kept(frame)} ELSE {previous}
    /\ UNCHANGED <<large_calculator, smb_calculator, request, forecast_queries, forecast_results>>
    /\ UNCHANGED <<deployment, suspended, simple>>
    /\ UNCHANGED <<reply, background_tasks, auth_service, simple_users>>

(***************************************************************************)
(* KnowledgeService: the assumptions provider                              *)
(***************************************************************************)

\* KnowledgeService.get_assumptions
GetAssumptions ==
    [large_customer |->
        [arpu            |-> Dec(16667, 0),
         onboarding_ramp |-> <<1, 1, 2, 2, 3, 4, 5, 6, 7, 8, 9>>,
         growth_rate     |-> Dec(5, 1),
         churn_rate      |-> Dec(2, 1)],
     smb_customer |->
        [arpu            |-> Dec(5000, 0),
         marketing_spend |-> Dec(200000, 0),
         cac             |-> Dec(1250, 0),
         conversion_rate |-> Dec(45, 1),
         growth_rate     |-> Dec(3, 1),
         churn_rate      |-> Dec(5, 1)]]

\* dict.update: every key of other overwrites or is added, None included
DictUpdate(d, other) ==
    [k \in DOMAIN d \cup DOMAIN other |-> IF k \in DOMAIN other THEN other[k] ELSE d[k]]

\* KnowledgeService.update_assumptions
UpdateAssumptions(overrides) ==
    LET assumptions == GetAssumptions
    IN  [large_customer |->
            IF "large" \in DOMAIN overrides
            THEN DictUpdate(assumptions.large_customer, overrides.large)
            ELSE assumptions.large_customer,
         smb_customer |->
            IF "smb" \in DOMAIN overrides
            THEN DictUpdate(assumptions.smb_customer, overrides.smb)
            ELSE assumptions.smb_customer]

(***************************************************************************)
(* QueryParser: what the language model answers, and its validation        *)
(***************************************************************************)

ValidIntents ==
    {"forecast_total_revenue", "forecast_large_revenue", "forecast_smb_revenue",
     "explain_assumptions"}

\* a timeframe that is not an int (a string, a fraction): the condition that
\* rejects a horizon outside 1..36 rejects it
NotAnInteger == -1

\* QueryParser._validate_intent: TRUE when it raises nothing
ValidateIntent(intent) ==
    /\ {"intent", "timeframe_months", "assumption_overrides"} \subseteq DOMAIN intent
    /\ intent.intent \in ValidIntents
    /\ intent.timeframe_months # NotAnInteger
    /\ intent.timeframe_months >= 1 /\ intent.timeframe_months <= 36
    /\ {"large", "smb"} \subseteq DOMAIN intent.assumption_overrides

\* the overrides of the parser's schema: every field present and null
NullOverrides ==
    [large |-> [arpu |-> None, growth_rate |-> None, churn_rate |-> None],
     smb   |-> [marketing_spend |-> None, cac |-> None, conversion_rate |-> None,
                arpu |-> None, growth_rate |-> None, churn_rate |-> None]]

\* overrides with no field at all
EmptyOverrides == [large |-> <<>>, smb |-> <<>>]

\* the prompt's example "increase marketing spend by 20%"
SpendOverrides == [NullOverrides EXCEPT !.smb.marketing_spend = Dec(240000, 0)]

\* the language model answers a string for a number
TextOverrides == [NullOverrides EXCEPT !.smb.arpu = Text]

\* the answers of concurrent requests: with and without an override, with
\* and without a calculator run
ConcurrentAnswers ==
    [intent : {"forecast_total_revenue", "forecast_smb_revenue", "explain_assumptions"},
     timeframe_months : {1, 2},
     assumption_overrides : {NullOverrides, SpendOverrides}]

\* longest horizon the parser answers in the model (the test's 12 months)
MaxRouterMonths == 12

\* answers of the language model, valid or not
ParserAnswers ==
    [intent : ValidIntents \cup {"forecast_profit"},
     timeframe_months : {0, 1, 3, MaxRouterMonths},
     assumption_overrides : {NullOverrides, EmptyOverrides, SpendOverrides,
                             TextOverrides}]
    \cup {[timeframe_months |-> 3, assumption_overrides |-> NullOverrides],
          [intent |-> "forecast_smb_revenue", timeframe_months |-> 3,
           assumption_overrides |-> [large |-> <<>>]]}

\* the answers given to the routers whose database can fail
FaultyAnswers ==
    [intent : {"forecast_total_revenue", "forecast_smb_revenue",
               "explain_assumptions", "forecast_profit"},
     timeframe_months : {0, 3},
     assumption_overrides : {NullOverrides, SpendOverrides, TextOverrides}]

\* what only the real parser can be given: no content, content that is not
\* JSON, a failing API call, a timeframe that is not an int, a horizon past 36
UnparsedAnswers ==
    [content : {"", "not json", "api error"}]
    \cup [intent : {"forecast_smb_revenue"}, timeframe_months : {NotAnInteger, 37},
          assumption_overrides : {NullOverrides}]

\* mutant: only the JSON error is turned into ValueError
ParserExceptionUnwrapped(answer) ==
    IF "content" \in DOMAIN answer /\ answer.content = "api error" THEN "APIError"
    ELSE "ValueError"

\* parse_query's except clauses: whatever fails, ValueError is raised
ParserException(answer) == "ValueError"

\* parse_query raises: the content is empty, json.loads or the API call
\* fails, or _validate_intent rejects the parsed answer
ParseQueryRaises(answer) ==
    \/ "content" \in DOMAIN answer
    \/ ~ValidateIntent(answer)

(***************************************************************************)
(* The forecast routers: create_forecast over a SQL session                *)
(* (app/backend/routers) and over the Supabase wrapper (backend/routers)   *)
(***************************************************************************)

\* the router of app/backend, a database that works, one request at a time
SessionDeployment == [router |-> "session", db_faults |-> FALSE, concurrent |-> FALSE]

\* the routers: "session" is the router of app/backend, "supabase" the router
\* of backend with the KnowledgeService it imports, and "supabase_patched" the
\* router of backend with get_relevant_context, get_assumptions and
\* update_assumptions patched onto the KnowledgeService, as the tests patch
\* get_relevant_context and parse_query
Routers == {"session", "supabase", "supabase_patched"}

\* every router, over a database whose operations can fail
FaultyDeployments ==
    [router : Routers, db_faults : {TRUE}, concurrent : {FALSE}]

\* the router of app/backend serving requests concurrently
ConcurrentDeployment == [router |-> "session", db_faults |-> FALSE, concurrent |-> TRUE]

\* requests of a behaviour under concurrency, all of which may be in flight
MaxInFlight == 2

\* whether a database operation succeeds
DBOutcomes == IF deployment.db_faults THEN BOOLEAN ELSE {TRUE}

\* the KnowledgeService the router imports has get_assumptions and
\* update_assumptions: the one of app/backend has, the one of backend has not
HasAssumptions(router) == router \in {"session", "supabase_patched"}

\* the KnowledgeService the router imports has get_relevant_context: the one
\* of backend has not, so step 1 raises AttributeError
HasRelevantContext(router) == router \in {"session", "supabase_patched"}

\* SupabaseDB.create and SupabaseDB.update catch every exception and return
\* None; a failing session.commit() raises
SwallowsErrors(router) == router \in {"supabase", "supabase_patched"}

\* current_user["id"] of the request; the router of app/backend has no users
CurrentUser(router) == IF SwallowsErrors(router) THEN 1 ELSE 0

\* forecast_query is the local of that name: "unbound" before step 3, "row"
\* once it names a stored record, "unsaved" when step 3 stored nothing
IdleRequest ==
    [pc |-> "idle", patched |-> FALSE, parsed_intent |-> <<>>, query_id |-> 0,
     forecast_query |-> "unbound", exc |-> "none", updated_assumptions |-> <<>>, large_data |-> <<>>,
     smb_data |-> <<>>, result_data |-> <<>>, assumptions_used |-> <<>>,
     calls |-> <<>>, response |-> <<>>]

\* requests served in a behaviour
MaxRequests == 1

RECURSIVE SumRevenue(_)
\* sum(month["revenue"] for month in data)
SumRevenue(data) ==
    IF data = <<>> THEN Zero ELSE Add(data[1].revenue, SumRevenue(Tail(data)))

\* dict.get(key, default)
Get(d, key, default) == IF key \in DOMAIN d THEN d[key] ELSE default

SalesPeopleRamp == <<1, 2, 2, 2, 3, 4, 5, 6, 7, 8, 9>>

\* one entry of the merged monthly_data of forecast_total_revenue (i from 1)
TotalEntry(i, large_data, smb_data, updated_assumptions) ==
    LET large_revenue == large_data[i].revenue
        smb_revenue   == smb_data[i].revenue
        total_revenue == Add(large_revenue, smb_revenue)
        large == updated_assumptions.large_customer
        smb   == updated_assumptions.smb_customer
    IN  [month |-> i,
         large_customer_revenue |-> large_revenue,
         smb_customer_revenue |-> smb_revenue,
         total_revenue |-> total_revenue,
         total_revenue_mn |-> Round2(Mul(total_revenue, Dec(1, 3))),
         sales_people |-> IF i <= Len(SalesPeopleRamp) THEN SalesPeopleRamp[i]
                          ELSE SalesPeopleRamp[Len(SalesPeopleRamp)],
         large_accounts_per_sales_person |-> 1,
         large_accounts_onboarded |-> large_data[i].new_customers,
         cumulative_large_customers |-> large_data[i].cumulative_customers,
         avg_revenue_per_large_customer |-> Get(large, "arpu", Dec(16667, 0)),
         digital_marketing_spend |-> Get(smb, "marketing_spend", Dec(200000, 0)),
         avg_cac |-> Get(smb, "cac", Dec(1250, 0)),
         sales_enquiries |-> 160,
         conversion_rate |-> Get(smb, "conversion_rate", Dec(45, 1)),
         smb_customers_onboarded |-> smb_data[i].new_customers,
         cumulative_smb_customers |-> smb_data[i].cumulative_customers,
         avg_revenue_per_smb_customer |-> Get(smb, "arpu", Dec(5000, 0)),
         large_churned_customers |-> large_data[i].churned_customers,
         smb_churned_customers |-> smb_data[i].churned_customers,
         large_growth_rate |-> Get(large, "growth_rate", Dec(5, 1)),
         smb_growth_rate |-> Get(smb, "growth_rate", Dec(3, 1)),
         large_churn_rate |-> Get(large, "churn_rate", Dec(2, 1)),
         smb_churn_rate |-> Get(smb, "churn_rate", Dec(5, 1))]

RECURSIVE SumField(_, _)
SumField(entries, name) ==
    IF entries = <<>> THEN Zero
    ELSE Add(entries[1][name], SumField(Tail(entries), name))

\* result_data of forecast_total_revenue
TotalResult(timeframe_months, large_data, smb_data, updated_assumptions) ==
    LET monthly == [i \in 1..timeframe_months |->
                       TotalEntry(i, large_data, smb_data, updated_assumptions)]
    IN  [forecast_type |-> "total_revenue",
         timeframe_months |-> timeframe_months,
         monthly_data |-> monthly,
         summary |-> [total_revenue |-> SumField(monthly, "total_revenue"),
                      large_customer_revenue |->
                          SumField(monthly, "large_customer_revenue"),
                      smb_customer_revenue |->
                          SumField(monthly, "smb_customer_revenue")]]

\* result_data of forecast_large_revenue and forecast_smb_revenue
SegmentResult(forecast_type, timeframe_months, data) ==
    [forecast_type |-> forecast_type,
     timeframe_months |-> timeframe_months,
     monthly_data |-> data,
     summary |-> [total_revenue |-> SumRevenue(data),
                  total_customers |->
                      IF data # <<>> THEN data[Len(data)].cumulative_customers
                      ELSE Zero]]

\* result_data of explain_assumptions
ExplainResult(updated_assumptions) ==
    [forecast_type |-> "assumptions_explanation",
     assumptions |-> updated_assumptions,
     message |-> "Current assumptions for financial forecasting"]

\* steps 1 and 2: get_relevant_context, whose value has no effect but which
\* the KnowledgeService of backend does not have, and parse_query; the tests
\* patch parse_query, and a patched parser hands over any answer
ParseQuery ==
    /\ request.pc \in {"idle", "done"}
    /\ Len(forecast_queries) + Cardinality({r \in suspended : r.query_id = 0})
          < (IF deployment.concurrent THEN MaxInFlight ELSE MaxRequests)
    /\ \E patched \in IF deployment.concurrent THEN {FALSE} ELSE BOOLEAN :
          \E answer \in IF deployment.concurrent THEN ConcurrentAnswers
                         ELSE IF deployment.db_faults /\ patched THEN FaultyAnswers
                         ELSE IF deployment.db_faults
                         THEN FaultyAnswers \cup UnparsedAnswers
                         ELSE IF patched THEN ParserAnswers
                         ELSE ParserAnswers \cup UnparsedAnswers :
              request' =
                  IF ~HasRelevantContext(deployment.router)
                  THEN Raise(IdleRequest, "AttributeError")
                  ELSE IF patched \/ ~ParseQueryRaises(answer)
                  THEN [IdleRequest EXCEPT !.pc = "parsed", !.patched = patched,
                                           !.parsed_intent = answer]
                  ELSE Raise([IdleRequest EXCEPT !.parsed_intent = answer],
                             ParserException(answer))
    /\ UNCHANGED <<large_calculator, smb_calculator, frame,
                   forecast_queries, forecast_results>>
    /\ UNCHANGED <<deployment, suspended, simple>>
    /\ UNCHANGED aside

\* step 3: session.add(forecast_query); commit; refresh, respectively
\* db.create("forecastquery", ...). A failing commit raises and leaves no
\* record; a failing db.create returns None and the request goes on
CreateQueryRecord ==
    /\ request.pc = "parsed"
    /\ \E ok \in DBOutcomes :
          LET id == Len(forecast_queries) + 1
          IN  IF ok
              THEN /\ forecast_queries' = Append(forecast_queries,
                          [id |-> id, user_id |-> CurrentUser(deployment.router),
                           query_text |-> "query",
                           parsed_intent |-> request.parsed_intent,
                           status |-> "processing"])
                   /\ request' = [request EXCEPT !.pc = "execute", !.query_id = id,
                                                 !.forecast_query = "row"]
              ELSE /\ forecast_queries' = forecast_queries
                   /\ request' =
                         IF SwallowsErrors(deployment.router)
                         THEN [request EXCEPT !.pc = "execute",
                                              !.forecast_query = "unsaved"]
                         ELSE Raise([request EXCEPT !.forecast_query = "unsaved"],
                                    "SQLAlchemyError")
    /\ UNCHANGED <<large_calculator, smb_calculator, frame, forecast_results>>
    /\ UNCHANGED <<deployment, suspended, simple>>
    /\ UNCHANGED aside

\* calculator.calculate(timeframe_months=..., **kwargs) from the router: a
\* keyword calculate does not have raises TypeError
RouterCall(req, kind, kwargs) ==
    IF kind = "large"
    THEN IF DOMAIN kwargs \subseteq LargeParams
         THEN [req   |-> [req EXCEPT !.pc = "calculating",
                                     !.calls = Append(@, "large")],
               frame |-> LargeEnter(large_calculator, "router",
                                    req.parsed_intent.timeframe_months, kwargs),
               self  |-> CalculatorAfterCall(large_calculator, kwargs)]
         ELSE [req |-> Raise(req, "TypeError"), frame |-> IdleFrame,
               self |-> large_calculator]
    ELSE IF DOMAIN kwargs \subseteq SMBParams
         THEN [req   |-> [req EXCEPT !.pc = "calculating",
                                     !.calls = Append(@, "smb")],
               frame |-> SMBEnter(smb_calculator, "router",
                                  req.parsed_intent.timeframe_months, kwargs),
               self  |-> CalculatorAfterCall(smb_calculator, kwargs)]
         ELSE [req |-> Raise(req, "TypeError"), frame |-> IdleFrame,
               self |-> smb_calculator]

\* mutant: an unsupported intent falls through to the assumptions branch
IntentBranchDefault(intent) ==
    IF intent = "forecast_total_revenue" THEN "total"
    ELSE IF intent = "forecast_large_revenue" THEN "large"
    ELSE IF intent = "forecast_smb_revenue" THEN "smb"
    ELSE "explain"

\* the if / elif chain of _execute_calculation on the intent
IntentBranch(intent) ==
    IF intent = "forecast_total_revenue" THEN "total"
    ELSE IF intent = "forecast_large_revenue" THEN "large"
    ELSE IF intent = "forecast_smb_revenue" THEN "smb"
    ELSE IF intent = "explain_assumptions" THEN "explain"
    ELSE "unknown"

\* mutant: TypeError is handled with ValueError
StatusCodeTypeErrorAsClient(exc) == IF exc \in {"ValueError", "TypeError"} THEN 400 ELSE 500

\* create_forecast's except clauses: the HTTP status of an exception
StatusCode(exc) == IF exc = "ValueError" THEN 400 ELSE 500

\* step 4, _execute_calculation up to its first calculator call
ExecuteCalculation ==
    /\ request.pc = "execute"
    /\ LET parsed == request.parsed_intent
       IN  IF ~({"intent", "timeframe_months", "assumption_overrides"}
                    \subseteq DOMAIN parsed)
           THEN /\ request' = Raise(request, "KeyError")
                /\ UNCHANGED <<frame, large_calculator, smb_calculator>>
           ELSE IF ~HasAssumptions(deployment.router)
           THEN /\ request' = Raise(request, "AttributeError")
                /\ UNCHANGED <<frame, large_calculator, smb_calculator>>
           ELSE LET updated == UpdateAssumptions(parsed.assumption_overrides)
                    req == [request EXCEPT !.updated_assumptions = updated,
                                           !.assumptions_used = updated]
                    branch == IntentBranch(parsed.intent)
                    call == IF branch = "smb"
                            THEN RouterCall(req, "smb", updated.smb_customer)
                            ELSE RouterCall(req, "large", updated.large_customer)
                IN  IF branch \in {"total", "large", "smb"}
                    THEN /\ request' = call.req
                         /\ frame' = call.frame
                         /\ smb_calculator' =
                               IF branch = "smb" THEN call.self ELSE smb_calculator
                         /\ large_calculator' =
                               IF branch = "smb" THEN large_calculator ELSE call.self
                    ELSE IF branch = "explain"
                    THEN /\ request' = [req EXCEPT !.pc = "calculated",
                                           !.result_data = ExplainResult(updated)]
                         /\ UNCHANGED <<frame, large_calculator, smb_calculator>>
                    ELSE /\ request' = Raise(req, "ValueError")
                         /\ UNCHANGED <<frame, large_calculator, smb_calculator>>
    /\ UNCHANGED <<forecast_queries, forecast_results>>
    /\ UNCHANGED <<deployment, suspended, simple>>
    /\ UNCHANGED aside

\* a calculator returns to _execute_calculation, which calls the next one or
\* builds result_data
RouterReturn ==
    /\ frame.pc = "loop"
    /\ frame.caller = "router"
    /\ frame.month >= frame.timeframe_months
    /\ LET intent  == request.parsed_intent.intent
           months  == request.parsed_intent.timeframe_months
           updated == request.updated_assumptions
           data    == frame.monthly_data
           call    == RouterCall([request EXCEPT !.large_data = data], "smb",
                                 updated.smb_customer)
           branch  == IntentBranch(intent)
       IN  IF branch = "total" /\ frame.kind = "large"
           THEN /\ request' = call.req
                /\ frame' = call.frame
                /\ smb_calculator' = call.self
           ELSE /\ frame' = IdleFrame
                /\ smb_calculator' = smb_calculator
                /\ request' =
                      IF branch = "total"
                      THEN [request EXCEPT
                               !.pc = "calculated", !.smb_data = data,
                               !.result_data =
                                   TotalResult(months, request.large_data, data, updated)]
                      ELSE IF branch = "large"
                      THEN [request EXCEPT
                               !.pc = "calculated", !.large_data = data,
                               !.result_data =
                                   SegmentResult("large_customer_revenue", months, data)]
                      ELSE [request EXCEPT
                               !.pc = "calculated", !.smb_data = data,
                               !.result_data =
                                   SegmentResult("smb_customer_revenue", months, data)]
    /\ UNCHANGED <<large_calculator, forecast_queries, forecast_results>>
    /\ UNCHANGED <<deployment, suspended, simple>>
    /\ UNCHANGED aside

\* mutant: the failure is recorded under another name
SetStatusAsError(queries, id, status) ==
    [i \in 1..Len(queries) |->
        IF queries[i].id = id
        THEN [queries[i] EXCEPT !.status = IF status = "failed" THEN "error" ELSE status]
        ELSE queries[i]]

\* forecast_query.status = status, stored by the commit, respectively
\* db.update("forecastquery", id, {"status": status})
SetStatus(queries, id, status) ==
    [i \in 1..Len(queries) |->
        IF queries[i].id = id THEN [queries[i] EXCEPT !.status = status]
        ELSE queries[i]]

\* the ForecastResult of steps 5
ResultRecord(req) ==
    [query_id |-> req.query_id,
     result |-> req.result_data,
     assumptions_used |-> req.assumptions_used,
     calculation_metadata |->
         [intent |-> req.parsed_intent.intent,
          timeframe_months |-> req.parsed_intent.timeframe_months,
          calculator_version |-> "1.0.0"]]

\* return ForecastResponse(query_id=..., status="completed", ...)
CompletedResponse(req) ==
    [status_code |-> 200,
     query_id |-> req.query_id,
     status |-> "completed",
     result |-> req.result_data,
     assumptions_used |-> req.assumptions_used]

\* steps 5 and 6 and the return. Over the session: add the result, set
\* status = "completed", one commit that stores both or raises. Over
\* Supabase: db.create of the result, then db.update of the status, each of
\* which may store nothing and return None; forecast_query["id"] raises
\* TypeError when step 3 returned None
StoreResult ==
    /\ request.pc = "calculated"
    /\ \E ok \in DBOutcomes, ok_status \in DBOutcomes :
          IF SwallowsErrors(deployment.router)
          THEN IF request.forecast_query # "row"
               THEN /\ request' = Raise(request, "TypeError")
                    /\ UNCHANGED <<forecast_queries, forecast_results>>
               ELSE /\ forecast_results' =
                          IF ok THEN Append(forecast_results, ResultRecord(request))
                          ELSE forecast_results
                    /\ forecast_queries' =
                          IF ok_status
                          THEN SetStatus(forecast_queries, request.query_id, "completed")
                          ELSE forecast_queries
                    /\ request' = [request EXCEPT
                          !.pc = "done", !.response = CompletedResponse(request)]
          ELSE IF ok
               THEN /\ forecast_results' =
                          Append(forecast_results, ResultRecord(request))
                    /\ forecast_queries' =
                          SetStatus(forecast_queries, request.query_id, "completed")
                    /\ request' = [request EXCEPT
                          !.pc = "done", !.response = CompletedResponse(request)]
               ELSE /\ request' = Raise(request, "SQLAlchemyError")
                    /\ UNCHANGED <<forecast_queries, forecast_results>>
    /\ UNCHANGED <<large_calculator, smb_calculator, frame>>
    /\ UNCHANGED <<deployment, suspended, simple>>
    /\ UNCHANGED aside

\* the except clause itself raises: over the session when its commit fails,
\* over Supabase when forecast_query is None (forecast_query["id"])
HandlerRaises(req, ok) ==
    IF SwallowsErrors(deployment.router)
    THEN req.forecast_query = "unsaved"
    ELSE req.forecast_query = "row" /\ ~ok

\* except ValueError / except Exception: if 'forecast_query' in locals(), mark
\* the stored query failed; then raise HTTPException 400, respectively 500.
\* An exception of the except clause itself leaves create_forecast unhandled,
\* which the framework answers with 500
HandleError ==
    /\ request.pc = "raised"
    /\ \E ok \in DBOutcomes :
          /\ forecast_queries' =
                IF request.forecast_query = "row" /\ ok
                THEN SetStatus(forecast_queries, request.query_id, "failed")
                ELSE forecast_queries
          /\ request' = [request EXCEPT
                !.pc = "done",
                !.response =
                    [status_code |-> IF HandlerRaises(request, ok) THEN 500
                                     ELSE StatusCode(request.exc)]]
    /\ UNCHANGED <<large_calculator, smb_calculator, frame, forecast_results>>
    /\ UNCHANGED <<deployment, suspended, simple>>
    /\ UNCHANGED aside

(***************************************************************************)
(* simple_main: the stand-alone endpoint POST /api/v1/forecast             *)
(***************************************************************************)

\* longest horizon a query of the stand-alone endpoint names in months
MaxSimpleMonths == 37

\* a query is told by the time phrase the regular expressions find in it;
\* "empty" is the empty string
SimpleQueries ==
    [time : {"months"}, n : 0..MaxSimpleMonths]
    \cup [time : {"years"}, n : {1, 4}]
    \cup [time : {"quarterly", "none", "empty"}, n : {0}]

\* time_patterns: the first pattern that matches sets forecast_period_months
ForecastPeriodMonths(query) ==
    CASE query.time = "months"    -> query.n
      [] query.time = "years"     -> query.n * 12
      [] query.time = "quarterly" -> 3
      [] OTHER                    -> 36

\* parse_query_for_assumptions for a query with a time phrase only, with the
\* default company data (revenue 100000, expenses 60000, customers 50)
ParseQueryForAssumptions(query) ==
    [large_seed_sales_team                 |-> Dec(2, 0),
     large_new_salespeople_per_month       |-> Dec(1, 0),
     large_deals_per_salesperson_per_month |-> Dec(150, 1),
     large_avg_revenue_per_user            |-> Dec(16500, 0),
     smb_monthly_marketing_budget          |-> Dec(30000, 0),
     smb_customer_acquisition_cost         |-> Dec(1500, 0),
     smb_conversion_rate                   |-> Dec(45, 1),
     smb_avg_revenue_per_user              |-> Dec(1000, 0),
     forecast_period_months                |-> ForecastPeriodMonths(query),
     large_total_customers_initial         |-> Dec(10, 0),
     smb_total_customers_initial           |-> Dec(40, 0),
     customer_growth_multiplier            |-> One,
     revenue_growth_multiplier             |-> One,
     expense_reduction_multiplier          |-> One]

\* one iteration of calculate_forecast_data's loop: month_data
MonthData(a, month, large_before, smb_before) ==
    LET team      == Add(a.large_seed_sales_team,
                         Mul(a.large_new_salespeople_per_month, Dec(month - 1, 0)))
        large_new == Mul(Mul(team, a.large_deals_per_salesperson_per_month),
                         a.customer_growth_multiplier)
        large_tot == Add(large_before, large_new)
        large_rev == Mul(Mul(large_tot, a.large_avg_revenue_per_user),
                         a.revenue_growth_multiplier)
        leads     == Div(a.smb_monthly_marketing_budget,
                         a.smb_customer_acquisition_cost)
        smb_new   == Mul(Mul(leads, a.smb_conversion_rate),
                         a.customer_growth_multiplier)
        smb_tot   == Add(smb_before, smb_new)
        smb_rev   == Mul(Mul(smb_tot, a.smb_avg_revenue_per_user),
                         a.revenue_growth_multiplier)
        revenue   == Add(large_rev, smb_rev)
        expenses  == Mul(Add(Mul(large_tot, Dec(2000, 0)), Mul(smb_tot, Dec(100, 0))),
                         a.expense_reduction_multiplier)
    IN  [month |-> month,
         large_customers |-> [sales_team_count |-> team, new_customers |-> large_new,
                              total_customers |-> large_tot,
                              monthly_revenue |-> large_rev],
         smb_customers |-> [leads_generated |-> leads, new_customers |-> smb_new,
                            total_customers |-> smb_tot, monthly_revenue |-> smb_rev],
         totals |-> [new_customers |-> Add(large_new, smb_new),
                     total_customers |-> Add(large_tot, smb_tot),
                     monthly_revenue |-> revenue,
                     monthly_expenses |-> expenses,
                     monthly_profit |-> Sub(revenue, expenses)]]

RECURSIVE SumTotals(_, _)
\* sum(month["totals"][name] for month in forecast_data)
SumTotals(forecast_data, name) ==
    IF forecast_data = <<>> THEN Zero
    ELSE Add(forecast_data[1].totals[name], SumTotals(Tail(forecast_data), name))

\* the summary calculate_forecast_data returns
SimpleSummary(a, forecast_data, large_total, smb_total) ==
    LET last == IF forecast_data # <<>>
                THEN forecast_data[Len(forecast_data)].totals
                ELSE [monthly_revenue |-> Zero, monthly_expenses |-> Zero,
                      monthly_profit |-> Zero]
        total_revenue  == SumTotals(forecast_data, "monthly_revenue")
        total_expenses == SumTotals(forecast_data, "monthly_expenses")
    IN  [total_months |-> a.forecast_period_months,
         final_large_customers |-> large_total,
         final_smb_customers |-> smb_total,
         final_total_customers |-> Add(large_total, smb_total),
         final_monthly_revenue |-> last.monthly_revenue,
         final_monthly_expenses |-> last.monthly_expenses,
         final_monthly_profit |-> last.monthly_profit,
         total_revenue |-> total_revenue,
         total_expenses |-> total_expenses,
         total_profit |-> Sub(total_revenue, total_expenses)]

\* the positions of create_forecast at which it awaits: before the commit of
\* step 3, before _execute_calculation, before the commit of step 6 and
\* before the commit of an except clause
AwaitPoints == {"parsed", "execute", "calculated", "raised"}

\* create_forecast awaits and the event loop takes up another request; the
\* calculators are synchronous, so no request is left inside calculate
Suspend ==
    /\ deployment.concurrent
    /\ frame.pc = "idle"
    /\ request.pc \in AwaitPoints
    /\ Cardinality(suspended) + 1 < MaxInFlight
    /\ suspended' = suspended \cup {request}
    /\ request' = IdleRequest
    /\ UNCHANGED <<large_calculator, smb_calculator, frame, forecast_queries,
                   forecast_results, deployment, simple>>
    /\ UNCHANGED aside

\* the event loop resumes a waiting request
Resume ==
    /\ request.pc \in {"idle", "done"}
    /\ \E r \in suspended :
          /\ request' = r
          /\ suspended' = suspended \ {r}
    /\ UNCHANGED <<large_calculator, smb_calculator, frame, forecast_queries,
                   forecast_results, deployment, simple>>
    /\ UNCHANGED aside

\* no request of simple_main's endpoint is being served
IdleSimple ==
    [pc |-> "idle", query |-> <<>>, assumptions |-> <<>>, month |-> 0,
     large_total_customers |-> Zero, smb_total_customers |-> Zero,
     forecast_data |-> <<>>, response |-> <<>>]

\* create_forecast up to the loop of calculate_forecast_data; an empty query
\* raises HTTPException(400) inside the try block, which except Exception
\* turns into HTTP 500
SimpleCreateForecast ==
    /\ simple.pc \in {"idle", "done"}
    /\ \E query \in SimpleQueries :
          simple' =
              IF query.time = "empty"
              THEN [IdleSimple EXCEPT !.pc = "done", !.query = query,
                                      !.response = [status_code |-> 500]]
              ELSE LET a == ParseQueryForAssumptions(query)
                   IN  [IdleSimple EXCEPT
                           !.pc = "loop", !.query = query, !.assumptions = a,
                           !.large_total_customers = a.large_total_customers_initial,
                           !.smb_total_customers = a.smb_total_customers_initial]
    /\ UNCHANGED <<large_calculator, smb_calculator, frame, request,
                   forecast_queries, forecast_results, deployment, suspended>>
    /\ UNCHANGED aside

\* for month in range(1, forecast_period_months + 1): one iteration
SimpleMonth ==
    /\ simple.pc = "loop"
    /\ simple.month < simple.assumptions.forecast_period_months
    /\ LET data == MonthData(simple.assumptions, simple.month + 1,
                             simple.large_total_customers,
                             simple.smb_total_customers)
       IN  simple' = [simple EXCEPT
               !.month = simple.month + 1,
               !.large_total_customers = data.large_customers.total_customers,
               !.smb_total_customers = data.smb_customers.total_customers,
               !.forecast_data = Append(@, data)]
    /\ UNCHANGED <<large_calculator, smb_calculator, frame, request,
                   forecast_queries, forecast_results, deployment, suspended>>
    /\ UNCHANGED aside

\* the summary, the insights (text only) and the response
SimpleRespond ==
    /\ simple.pc = "loop"
    /\ simple.month >= simple.assumptions.forecast_period_months
    /\ simple' = [simple EXCEPT
          !.pc = "done",
          !.response =
              [status_code |-> 200,
               status |-> "completed",
               assumptions_used |-> simple.assumptions,
               forecast_data |-> simple.forecast_data,
               summary |-> SimpleSummary(simple.assumptions, simple.forecast_data,
                                         simple.large_total_customers,
                                         simple.smb_total_customers),
               forecast_period |-> simple.assumptions.forecast_period_months]]
    /\ UNCHANGED <<large_calculator, smb_calculator, frame, request,
                   forecast_queries, forecast_results, deployment, suspended>>
    /\ UNCHANGED aside


(***************************************************************************)
(* Reading and exporting stored forecasts                                  *)
(***************************************************************************)

\* the authenticated users of the router over Supabase
Users == {1, 2}

\* read and export requests served in a behaviour
MaxReads == 2

\* longest horizon of a stored forecast
MaxStoredMonths == 12

\* the horizons of stored forecasts: one month, and the two longest
StoredHorizons == {1, MaxStoredMonths - 1, MaxStoredMonths}

\* a ForecastQuery record of the database
StoredQuery(id, user_id, status) ==
    [id |-> id, user_id |-> user_id, query_text |-> "query",
     parsed_intent |-> [intent |-> "forecast_smb_revenue", timeframe_months |-> 1,
                        assumption_overrides |-> EmptyOverrides],
     status |-> status]

\* a ForecastResult record of the database: an SMB forecast over n months
StoredResult(query_id, n) ==
    [query_id |-> query_id,
     result |-> SegmentResult("smb_customer_revenue", n,
                    RunAlone(SMBCalculator,
                             SMBEnter(SMBCalculator, "router", n,
                                      GetAssumptions.smb_customer))),
     assumptions_used |-> GetAssumptions,
     calculation_metadata |->
         [intent |-> "forecast_smb_revenue", timeframe_months |-> n,
          calculator_version |-> "1.0.0"]]

\* what the database holds when the requests arrive: a completed forecast of
\* user 1, and a forecast of user 2 that is completed or still without result
StoredTables ==
    {[queries |-> <<StoredQuery(1, 1, "completed"),
                    StoredQuery(2, 2, IF second THEN "completed" ELSE "processing")>>,
      results |-> IF second THEN <<StoredResult(1, n), StoredResult(2, 1)>>
                  ELSE <<StoredResult(1, n)>>] :
        n \in StoredHorizons, second \in BOOLEAN}

\* the query ids asked for: the stored ones and one that is not stored
QueryIds == 1..3

\* either router, one request at a time, over a database that works
ReadDeployments ==
    [router : {"session", "supabase"}, db_faults : {FALSE}, concurrent : {FALSE}]

\* no read or export request has been answered
NoReply == [seq |-> 0, endpoint |-> "none"]

\* the records of a table with field = value
Rows(table, field, value) == SelectSeq(table, LAMBDA r : r[field] = value)

\* order_by created_at desc: the latest record first
Reverse(s) == [i \in 1..Len(s) |-> s[Len(s) + 1 - i]]

\* get_forecast, list_forecasts and export check current_user in the router
\* of backend only
ChecksOwner(router) == SwallowsErrors(router)

\* mutant: every forecast passes for the caller's
OwnsAny(forecast_query, user) == TRUE

\* forecast_query["user_id"] == current_user["id"]
Owns(forecast_query, user) == forecast_query.user_id = user

\* raise HTTPException(status_code=...)
ErrorResponse(status_code) == [status_code |-> status_code]

\* ForecastResponse(query_id, status, result, assumptions_used, message)
ForecastResponse(forecast_query, results) ==
    [status_code |-> 200,
     query_id |-> forecast_query.id,
     status |-> forecast_query.status,
     result |-> IF Len(results) > 0 THEN results[1].result ELSE None,
     assumptions_used |-> IF Len(results) > 0 THEN results[1].assumptions_used
                          ELSE None]

\* get_forecast
GetForecastResponse(router, user, query_id) ==
    LET found   == Rows(forecast_queries, "id", query_id)
        results == Rows(forecast_results, "query_id", query_id)
    IN  IF Len(found) = 0 THEN ErrorResponse(404)
        ELSE IF ChecksOwner(router) /\ ~Owns(found[1], user) THEN ErrorResponse(403)
        ELSE ForecastResponse(found[1], results)

\* the page size of list_forecasts
ListLimit == 10

\* list_forecasts with the default limit and offset
ListForecastsResponse(router, user) ==
    LET mine == IF ChecksOwner(router)
                THEN SelectSeq(forecast_queries, LAMBDA q : Owns(q, user))
                ELSE forecast_queries
        page == SubSeq(Reverse(mine), 1,
                       IF Len(mine) < ListLimit THEN Len(mine) ELSE ListLimit)
    IN  [status_code |-> 200,
         responses |->
             [i \in 1..Len(page) |->
                 ForecastResponse(page[i],
                                  Rows(forecast_results, "query_id", page[i].id))]]

\* mutant: export does not look for the stored result
ExportResponseUnchecked(router, user, query_id) ==
    LET found == Rows(forecast_queries, "id", query_id)
    IN  IF Len(found) = 0 THEN ErrorResponse(404)
        ELSE IF ChecksOwner(router) /\ ~Owns(found[1], user) THEN ErrorResponse(403)
        ELSE [status_code |-> 200, status |-> "processing"]

\* export_forecast_to_excel: the response
ExportResponse(router, user, query_id) ==
    LET found   == Rows(forecast_queries, "id", query_id)
        results == Rows(forecast_results, "query_id", query_id)
    IN  IF Len(found) = 0 THEN ErrorResponse(404)
        ELSE IF ChecksOwner(router) /\ ~Owns(found[1], user) THEN ErrorResponse(403)
        ELSE IF Len(results) = 0 THEN ErrorResponse(404)
        ELSE [status_code |-> 200, status |-> "processing"]

\* background_tasks.add_task(generate_excel_report, query_id=...,
\* forecast_data=..., assumptions=...), respectively generate_excel_report.delay
ExcelTask(query_id) ==
    LET results == Rows(forecast_results, "query_id", query_id)
    IN  [query_id |-> query_id,
         forecast_data |-> IF Len(results) > 0 THEN results[1].result ELSE None,
         assumptions |-> IF Len(results) > 0 THEN results[1].assumptions_used
                         ELSE None,
         state |-> "scheduled",
         monthly_sheet |-> <<>>]

\* the rows of the monthly data sheet, named by the key of the month's
\* dictionary that _get_metric_value reads for them
Metrics ==
    <<"sales_people", "large_accounts_per_sales_person", "large_accounts_onboarded",
      "cumulative_large_customers", "avg_revenue_per_large_customer",
      "digital_marketing_spend", "avg_cac", "sales_enquiries", "conversion_rate",
      "smb_customers_onboarded", "cumulative_smb_customers",
      "avg_revenue_per_smb_customer", "large_customer_revenue",
      "smb_customer_revenue", "total_revenue", "total_revenue_mn">>

\* the month columns of the sheet: the headers M1..M11 and monthly_data[:11]
SheetMonths == 11

\* _get_metric_value: data.get(key, default), the conversion rate in percent
MetricValue(data, key) ==
    IF key = "conversion_rate"
    THEN Round0(Mul(Get(data, key, Zero), Dec(100, 0)))
    ELSE IF key = "large_accounts_per_sales_person" THEN Get(data, key, One)
    ELSE Get(data, key, Zero)

\* _create_monthly_data_sheet: per metric row, the values of the month columns
MonthlyDataSheet(forecast_data) ==
    LET monthly_data == Get(forecast_data, "monthly_data", <<>>)
        shown == SubSeq(monthly_data, 1,
                        IF Len(monthly_data) < SheetMonths THEN Len(monthly_data)
                        ELSE SheetMonths)
    IN  [row \in 1..Len(Metrics) |->
            [col \in 1..Len(shown) |-> MetricValue(shown[col], Metrics[row])]]

\* GET /forecast/{query_id}
GetForecast ==
    /\ reply.seq < MaxReads
    /\ \E user \in Users, query_id \in QueryIds :
          reply' = [seq |-> reply.seq + 1, endpoint |-> "get", user |-> user,
                    query_id |-> query_id,
                    response |-> GetForecastResponse(deployment.router, user, query_id)]
    /\ UNCHANGED <<large_calculator, smb_calculator, frame, request, forecast_queries,
                   forecast_results, deployment, suspended, simple>>
    /\ UNCHANGED <<previous, background_tasks, auth_service, simple_users>>

\* GET /forecast/
ListForecasts ==
    /\ reply.seq < MaxReads
    /\ \E user \in Users :
          reply' = [seq |-> reply.seq + 1, endpoint |-> "list", user |-> user,
                    query_id |-> 0,
                    response |-> ListForecastsResponse(deployment.router, user)]
    /\ UNCHANGED <<large_calculator, smb_calculator, frame, request, forecast_queries,
                   forecast_results, deployment, suspended, simple>>
    /\ UNCHANGED <<previous, background_tasks, auth_service, simple_users>>

\* POST /forecast/export: the task is added and the response returned; the
\* task runs after the response
ExportForecastToExcel ==
    /\ reply.seq < MaxReads
    /\ \E user \in Users, query_id \in QueryIds :
          LET response == ExportResponse(deployment.router, user, query_id)
          IN  /\ reply' = [seq |-> reply.seq + 1, endpoint |-> "export",
                           user |-> user, query_id |-> query_id,
                           response |-> response]
              /\ background_tasks' =
                    IF response.status_code = 200
                    THEN Append(background_tasks, ExcelTask(query_id))
                    ELSE background_tasks
    /\ UNCHANGED <<large_calculator, smb_calculator, frame, request, forecast_queries,
                   forecast_results, deployment, suspended, simple>>
    /\ UNCHANGED <<previous, auth_service, simple_users>>

\* generate_excel_report run by BackgroundTasks of the router of backend (the
\* task of the router of app/backend goes to a Celery worker)
GenerateExcelReport ==
    /\ SwallowsErrors(deployment.router)
    /\ \E i \in 1..Len(background_tasks) :
          /\ background_tasks[i].state = "scheduled"
          /\ background_tasks' =
                [background_tasks EXCEPT
                    ![i].state = "completed",
                    ![i].monthly_sheet =
                        MonthlyDataSheet(background_tasks[i].forecast_data)]
    /\ UNCHANGED <<large_calculator, smb_calculator, frame, request, forecast_queries,
                   forecast_results, deployment, suspended, simple>>
    /\ UNCHANGED <<previous, reply, auth_service, simple_users>>

\* AuthService.__init__
AuthService == [users_db |-> <<>>]

\* simple_main's users_db with no users file, and an empty users table
NoUsers == [connected |-> FALSE, users_db |-> <<>>, supabase |-> <<>>]

(***************************************************************************)
(* Registration                                                            *)
(***************************************************************************)

\* registration requests answered in a behaviour
MaxRegistrations == 3

Emails == {"a@x", "b@x"}

\* the passwords sent; simple_main also receives requests without one
Passwords == {"p", "q"}

\* secrets.token_hex(16)
Salts == {1, 2}

\* hash_password: the salt and the digest of password + salt
HashPassword(password, salt) == [salt |-> salt, digest |-> <<password, salt>>]

\* users_db[email] = user
Put(users_db, email, user) ==
    [e \in DOMAIN users_db \cup {email} |-> IF e = email THEN user ELSE users_db[e]]

\* POST /register of routers/auth.py: auth_service.create_user, its ValueError
\* answered with 400
RegisterUser ==
    /\ reply.seq < MaxRegistrations
    /\ \E email \in Emails, password \in Passwords, salt \in Salts :
          IF email \in DOMAIN auth_service.users_db
          THEN /\ reply' = [seq |-> reply.seq + 1, endpoint |-> "register",
                            email |-> email, response |-> [status_code |-> 400]]
               /\ UNCHANGED auth_service
          ELSE LET user == [id |-> Cardinality(DOMAIN auth_service.users_db) + 1,
                            email |-> email,
                            password_hash |-> HashPassword(password, salt)]
               IN  /\ auth_service' =
                         [auth_service EXCEPT
                             !.users_db = Put(auth_service.users_db, email, user)]
                   /\ reply' = [seq |-> reply.seq + 1, endpoint |-> "register",
                                email |-> email,
                                response |-> [status_code |-> 200, id |-> user.id]]
    /\ UNCHANGED <<large_calculator, smb_calculator, frame, request, forecast_queries,
                   forecast_results, deployment, suspended, simple>>
    /\ UNCHANGED <<previous, background_tasks, simple_users>>

\* POST /api/v1/auth/register of simple_main: get_user_from_supabase and
\* store_user_in_supabase answer None and False when the call to Supabase
\* raises; the users table holds one row per email
SimpleRegisterUser ==
    /\ reply.seq < MaxRegistrations
    /\ \E email \in Emails, password \in Passwords \cup {""}, salt \in Salts,
          select_raises \in BOOLEAN, insert_raises \in BOOLEAN :
          LET connected == simple_users.connected
              found     == /\ connected
                           /\ ~select_raises
                           /\ email \in DOMAIN simple_users.supabase
              existing  == found \/ email \in DOMAIN simple_users.users_db
              user      == [email |-> email,
                            password_hash |-> HashPassword(password, salt)]
              success   == /\ connected
                           /\ ~insert_raises
                           /\ email \notin DOMAIN simple_users.supabase
              filed     == [id |-> Cardinality(DOMAIN simple_users.users_db) + 1,
                            email |-> email,
                            password_hash |-> HashPassword(password, salt)]
          IN  /\ ~connected => ~select_raises /\ ~insert_raises
              /\ IF password = "" \/ existing
                 THEN /\ reply' = [seq |-> reply.seq + 1,
                                   endpoint |-> "simple_register", email |-> email,
                                   response |-> [status_code |-> 400]]
                      /\ UNCHANGED simple_users
                 ELSE /\ simple_users' =
                            IF success
                            THEN [simple_users EXCEPT
                                     !.supabase = Put(simple_users.supabase, email, user)]
                            ELSE [simple_users EXCEPT
                                     !.users_db = Put(simple_users.users_db, email, filed)]
                      /\ reply' = [seq |-> reply.seq + 1,
                                   endpoint |-> "simple_register", email |-> email,
                                   response |->
                                       [status_code |-> 200,
                                        id |-> IF success THEN 1 ELSE filed.id]]
    /\ UNCHANGED <<large_calculator, smb_calculator, frame, request, forecast_queries,
                   forecast_results, deployment, suspended, simple>>
    /\ UNCHANGED <<previous, background_tasks, auth_service>>

\* nothing returned, requested, scheduled or registered yet
InitAside ==
    /\ previous = NotKeeping
    /\ reply = NoReply
    /\ background_tasks = <<>>
    /\ auth_service = AuthService
    /\ simple_users = NoUsers

vars == <<large_calculator, smb_calculator, frame, request, forecast_queries,
          forecast_results, deployment, suspended, simple, previous, reply,
          background_tasks, auth_service, simple_users>>

Init ==
    /\ large_calculator = LargeCustomerCalculator
    /\ smb_calculator = SMBCalculator
    /\ frame = IdleFrame
    /\ request = IdleRequest
    /\ forecast_queries = <<>>
    /\ forecast_results = <<>>
    /\ deployment = SessionDeployment
    /\ suspended = {}
    /\ simple = IdleSimple
    /\ InitAside

\* the calculators called directly
NextCalc == TestCallLarge \/ TestCallSMB \/ CalcMonth \/ TestReturn \/ TestDone

SpecCalc == Init /\ [][NextCalc]_vars

\* the calculators called repeatedly by a caller that keeps the lists
InitRepeat ==
    /\ large_calculator = LargeCustomerCalculator
    /\ smb_calculator = SMBCalculator
    /\ frame = IdleFrame
    /\ request = IdleRequest
    /\ forecast_queries = <<>>
    /\ forecast_results = <<>>
    /\ deployment = SessionDeployment
    /\ suspended = {}
    /\ simple = IdleSimple
    /\ previous = [NotKeeping EXCEPT !.keeping = TRUE]
    /\ reply = NoReply
    /\ background_tasks = <<>>
    /\ auth_service = AuthService
    /\ simple_users = NoUsers

SpecRepeat == InitRepeat /\ [][NextCalc]_vars

\* the router serving create_forecast
Next ==
    \/ ParseQuery
    \/ CreateQueryRecord
    \/ ExecuteCalculation
    \/ CalcMonth
    \/ RouterReturn
    \/ StoreResult
    \/ HandleError

Spec == Init /\ [][Next]_vars

\* requests with the answers of FaultyAnswers served by either router over a
\* database that can fail
InitStore ==
    /\ large_calculator = LargeCustomerCalculator
    /\ smb_calculator = SMBCalculator
    /\ frame = IdleFrame
    /\ request = IdleRequest
    /\ forecast_queries = <<>>
    /\ forecast_results = <<>>
    /\ deployment \in FaultyDeployments
    /\ suspended = {}
    /\ simple = IdleSimple
    /\ InitAside

SpecStore == InitStore /\ [][Next]_vars

\* concurrent requests to the router of app/backend
InitConcurrent ==
    /\ large_calculator = LargeCustomerCalculator
    /\ smb_calculator = SMBCalculator
    /\ frame = IdleFrame
    /\ request = IdleRequest
    /\ forecast_queries = <<>>
    /\ forecast_results = <<>>
    /\ deployment = ConcurrentDeployment
    /\ suspended = {}
    /\ simple = IdleSimple
    /\ InitAside

NextConcurrent == Next \/ Suspend \/ Resume

SpecConcurrent == InitConcurrent /\ [][NextConcurrent]_vars

\* stored forecasts read and exported
InitRead ==
    /\ large_calculator = LargeCustomerCalculator
    /\ smb_calculator = SMBCalculator
    /\ frame = IdleFrame
    /\ request = IdleRequest
    /\ \E tables \in StoredTables :
          /\ forecast_queries = tables.queries
          /\ forecast_results = tables.results
    /\ deployment \in ReadDeployments
    /\ suspended = {}
    /\ simple = IdleSimple
    /\ InitAside

NextRead == GetForecast \/ ListForecasts \/ ExportForecastToExcel \/ GenerateExcelReport

SpecRead == InitRead /\ [][NextRead]_vars

\* registrations at the auth router and at simple_main, with and without
\* Supabase connected at start-up
InitAuth ==
    /\ large_calculator = LargeCustomerCalculator
    /\ smb_calculator = SMBCalculator
    /\ frame = IdleFrame
    /\ request = IdleRequest
    /\ forecast_queries = <<>>
    /\ forecast_results = <<>>
    /\ deployment = SessionDeployment
    /\ suspended = {}
    /\ simple = IdleSimple
    /\ previous = NotKeeping
    /\ reply = NoReply
    /\ background_tasks = <<>>
    /\ auth_service = AuthService
    /\ simple_users \in {[NoUsers EXCEPT !.connected = c] : c \in BOOLEAN}

NextAuth == RegisterUser \/ SimpleRegisterUser

SpecAuth == InitAuth /\ [][NextAuth]_vars

\* the stand-alone endpoint of simple_main
NextSimple == SimpleCreateForecast \/ SimpleMonth \/ SimpleRespond

SpecSimple == Init /\ [][NextSimple]_vars
(***************************************************************************)
(* Properties of the calculators                                           *)
(***************************************************************************)

Abs(x) == IF x.s < 0 THEN Neg(x) ELSE x
Max0(x) == IF Lt(x, Zero) THEN Zero ELSE x

RECURSIVE Compound(_, _, _)
\* base * (1 + rate)^n
Compound(base, rate, n) ==
    IF n = 0 THEN base ELSE Mul(Compound(base, rate, n - 1), Add(One, rate))

\* the locals of the frame are those of its iteration number frame.month
Iterated == frame.pc \in {"loop", "returned"} /\ frame.month >= 1

LastSnapshot == frame.monthly_data[Len(frame.monthly_data)]

\* the profile in effect is in the data model's valid range
ValidProfile ==
    /\ Lt(Zero, frame.arpu)
    /\ Le(Zero, frame.growth_rate)
    /\ Le(Zero, frame.churn_rate) /\ Lt(frame.churn_rate, One)
    /\ frame.kind = "smb" =>
          /\ Le(Zero, frame.marketing_spend)
          /\ Lt(Zero, frame.cac)
          /\ Le(Zero, frame.conversion_rate)

\* C1 as stated: churn is taken on the stock before the month's acquisitions,
\* and the stock is the clamped sum max(0, stock + new - churned), from 0.
C1_Original ==
    /\ frame.pc = "loop" /\ frame.month = 0 => frame.cumulative_customers = Zero
    /\ Iterated =>
          /\ frame.churned_customers = Mul(frame.stock_before, frame.churn_rate)
          /\ frame.cumulative_customers =
                Max0(Sub(Add(frame.stock_before, frame.new_customers),
                         frame.churned_customers))

\* C1 amended: the same recurrence on the loop's running values, without the
\* clamp: the stock is stock + new - churned, which is max(0, .) of it only
\* while the profile is valid.
C1_Recurrence ==
    /\ frame.pc = "loop" /\ frame.month = 0 => frame.cumulative_customers = Zero
    /\ Iterated =>
          /\ frame.churned_customers = Mul(frame.stock_before, frame.churn_rate)
          /\ frame.cumulative_customers =
                Sub(Add(frame.stock_before, frame.new_customers),
                    frame.churned_customers)
          /\ ValidProfile =>
                frame.cumulative_customers =
                    Max0(Sub(Add(frame.stock_before, frame.new_customers),
                             frame.churned_customers))

\* a month whose churn exceeds the stock and the acquisitions: no clamp acts
C1_Witness ==
    /\ Iterated /\ frame.month >= 2
    /\ Lt(Zero, frame.stock_before)
    /\ Lt(frame.cumulative_customers, Zero)
    /\ LastSnapshot.cumulative_customers = Round2(frame.cumulative_customers)

\* C3 as stated: in every snapshot, revenue = cumulative_customers * arpu on
\* the snapshot's own fields.
C3_Original ==
    \A i \in 1..Len(frame.monthly_data) :
        frame.monthly_data[i].revenue =
            Mul(frame.monthly_data[i].cumulative_customers, frame.monthly_data[i].arpu)

\* 0.005 * |arpu| + 0.005 : what rounding both fields to 2 decimals can add
RoundingSlack(arpu) == Add(Mul(Dec(50, 2), Abs(arpu)), Dec(50, 2))

\* C3 amended: the snapshot's revenue is round(stock * arpu, 2) and its
\* cumulative_customers is round(stock, 2), for the unrounded stock after the
\* month's acquisitions and churn; so in every snapshot the revenue field is
\* within 0.005 * arpu + 0.005 of cumulative_customers * arpu.
C3_RoundedRevenue ==
    /\ Iterated =>
          /\ frame.revenue = Mul(frame.cumulative_customers, frame.arpu)
          /\ LastSnapshot.revenue = Round2(Mul(frame.cumulative_customers, frame.arpu))
          /\ LastSnapshot.cumulative_customers = Round2(frame.cumulative_customers)
          /\ LastSnapshot.arpu = frame.arpu
    /\ \A i \in 1..Len(frame.monthly_data) :
          LET snap == frame.monthly_data[i]
          IN  Le(Abs(Sub(snap.revenue, Mul(snap.cumulative_customers, snap.arpu))),
                 RoundingSlack(snap.arpu))

\* a snapshot whose two fields were rounded apart
C3_Witness ==
    /\ frame.pc = "returned"
    /\ \E i \in 1..Len(frame.monthly_data) :
          frame.monthly_data[i].revenue #
              Mul(frame.monthly_data[i].cumulative_customers, frame.monthly_data[i].arpu)
    /\ LastSnapshot.revenue = Round2(frame.revenue)

\* C4: in the ramp months the enterprise snapshot's new_customers is the
\* ramp's entry, whatever growth_rate, churn_rate or arpu is supplied.
C4_RampMonths ==
    frame.kind = "large" =>
        \A m \in 1..Len(frame.monthly_data) :
            m <= Len(large_calculator.onboarding_ramp) =>
                frame.monthly_data[m].new_customers =
                    Dec(large_calculator.onboarding_ramp[m], 0)

\* the last ramp month of a run with every parameter overridden
C4_Witness ==
    /\ frame.kind = "large"
    /\ frame.month = Len(large_calculator.onboarding_ramp)
    /\ ~IsNone(frame.args.growth_rate) /\ ~IsZero(frame.args.growth_rate)
    /\ ~IsNone(frame.args.arpu) /\ ~IsNone(frame.args.churn_rate)
    /\ LastSnapshot.new_customers = Dec(9, 0)

\* an iteration of the enterprise loop past the ramp
PastRampStep ==
    /\ frame.pc = "loop" /\ frame'.pc = "loop" /\ frame'.kind = "large"
    /\ frame'.month = frame.month + 1
    /\ frame'.month > Len(large_calculator.onboarding_ramp)

\* C5 as stated: past the ramp, a month's new_customers is the previous
\* month's new_customers times (1 + growth_rate).
C5_Original ==
    [][PastRampStep =>
         frame'.new_customers =
             Mul(frame.new_customers, Add(One, frame'.growth_rate))]_vars

\* C5 amended: in the first month past the ramp new_customers is the last ramp
\* entry times (1 + growth_rate); in every later month it is the previous
\* snapshot's new_customers, which is the previous value rounded to 2
\* decimals, times (1 + growth_rate); the snapshot holds it rounded.
C5_GrowthOnRounded ==
    (Iterated /\ frame.kind = "large"
        /\ frame.month > Len(large_calculator.onboarding_ramp)) =>
        LET ramp == large_calculator.onboarding_ramp
            m    == frame.month
        IN  /\ m = Len(ramp) + 1 =>
                  frame.new_customers =
                      Mul(Dec(ramp[Len(ramp)], 0), Add(One, frame.growth_rate))
            /\ m > Len(ramp) + 1 =>
                  frame.new_customers =
                      Mul(frame.monthly_data[m - 1].new_customers,
                          Add(One, frame.growth_rate))
            /\ LastSnapshot.new_customers = Round2(frame.new_customers)
            /\ LastSnapshot.growth_rate = frame.growth_rate

\* a month past the ramp that compounds on a value the snapshot had rounded
C5_Witness ==
    /\ Iterated /\ frame.kind = "large"
    /\ frame.month > Len(large_calculator.onboarding_ramp) + 1
    /\ frame.monthly_data[frame.month - 1].new_customers #
           Mul(frame.monthly_data[frame.month - 2].new_customers,
               Add(One, frame.growth_rate))
    /\ frame.new_customers =
           Mul(frame.monthly_data[frame.month - 1].new_customers,
               Add(One, frame.growth_rate))

\* the spend the SMB run starts from
BaseSpend == OrDefault(frame.args.marketing_spend, smb_calculator.default_marketing_spend)

\* the SMB funnel of the frame's month: the spend compounded once per month
\* after the first, and the new customers computed from that spend
SMBFunnel ==
    /\ frame.marketing_spend =
          (IF Lt(Zero, frame.growth_rate)
           THEN Compound(BaseSpend, frame.growth_rate, frame.month - 1)
           ELSE BaseSpend)
    /\ frame.new_customers =
          Mul(Div(frame.marketing_spend, frame.cac), frame.conversion_rate)

\* C6 as stated: new_customers = (marketing_spend / cac) * conversion_rate on
\* the spend grown before it, and the snapshot's marketing_spend is the spend
\* that was used.
C6_Original ==
    (Iterated /\ frame.kind = "smb") =>
        /\ SMBFunnel
        /\ LastSnapshot.marketing_spend = frame.marketing_spend

\* C6 amended: the same funnel; the snapshot's marketing_spend is the spend
\* that was used, rounded to 2 decimals (and its new_customers likewise).
C6_SpendGrownFirst ==
    (Iterated /\ frame.kind = "smb") =>
        /\ SMBFunnel
        /\ LastSnapshot.marketing_spend = Round2(frame.marketing_spend)
        /\ LastSnapshot.new_customers = Round2(frame.new_customers)

\* a month whose grown spend has more than 2 decimals
C6_Witness ==
    /\ Iterated /\ frame.kind = "smb" /\ frame.month >= 2
    /\ Lt(BaseSpend, frame.marketing_spend)
    /\ LastSnapshot.marketing_spend # frame.marketing_spend
    /\ frame.new_customers =
          Mul(Div(frame.marketing_spend, frame.cac), frame.conversion_rate)

\* the valid range of a profile field
InRange(name, v) ==
    CASE name = "arpu"            -> Lt(Zero, v)
      [] name = "growth_rate"     -> Le(Zero, v)
      [] name = "churn_rate"      -> Le(Zero, v) /\ Lt(v, One)
      [] name = "marketing_spend" -> Le(Zero, v)
      [] name = "cac"             -> Lt(Zero, v)
      [] name = "conversion_rate" -> Le(Zero, v)

\* the calculator's stored default of a field
DefaultOf(name) ==
    IF frame.kind = "large"
    THEN CASE name = "arpu"        -> large_calculator.default_arpu
           [] name = "growth_rate" -> large_calculator.default_growth_rate
           [] name = "churn_rate"  -> large_calculator.default_churn_rate
    ELSE CASE name = "arpu"            -> smb_calculator.default_arpu
           [] name = "marketing_spend" -> smb_calculator.default_marketing_spend
           [] name = "cac"             -> smb_calculator.default_cac
           [] name = "conversion_rate" -> smb_calculator.default_conversion_rate
           [] name = "growth_rate"     -> smb_calculator.default_growth_rate
           [] name = "churn_rate"      -> smb_calculator.default_churn_rate

\* C7 as stated: a field passed with a value of its valid range is the value
\* the run uses and the snapshots echo (marketing_spend: the first snapshot,
\* the later ones hold the grown spend); a field not passed is the default.
C7_Original ==
    frame.pc \in {"loop", "returned"} =>
        \A name \in DOMAIN frame.args :
            /\ IsNone(frame.args[name]) =>
                  (frame.month = 0 => frame[name] = DefaultOf(name))
            /\ (~IsNone(frame.args[name]) /\ InRange(name, frame.args[name])) =>
                  /\ name # "marketing_spend" =>
                        /\ frame[name] = frame.args[name]
                        /\ \A i \in 1..Len(frame.monthly_data) :
                              frame.monthly_data[i][name] = frame.args[name]
                  /\ name = "marketing_spend" =>
                        /\ frame.month = 0 => frame[name] = frame.args[name]
                        /\ frame.month >= 1 =>
                              frame.monthly_data[1][name] = Round2(frame.args[name])

\* C8: calculate returns exactly timeframe_months snapshots, whose month
\* fields are 1, 2, ..., timeframe_months in that order.
C8_OneSnapshotPerMonth ==
    /\ frame.pc = "returned" => Len(frame.monthly_data) = frame.timeframe_months
    /\ frame.pc = "loop" => Len(frame.monthly_data) = frame.month
    /\ \A i \in 1..Len(frame.monthly_data) : frame.monthly_data[i].month = i

\* a returned run that went past the ramp
C8_Witness ==
    /\ frame.pc = "returned"
    /\ frame.timeframe_months > Len(large_calculator.onboarding_ramp)
    /\ Len(frame.monthly_data) = frame.timeframe_months
    /\ LastSnapshot.month = frame.timeframe_months

\* C9: under a valid profile the stock is never negative, in the loop and in
\* every snapshot.
C9_StockNonNegative ==
    (frame.pc \in {"loop", "returned"} /\ ValidProfile) =>
        /\ Le(Zero, frame.cumulative_customers)
        /\ \A i \in 1..Len(frame.monthly_data) :
              Le(Zero, frame.monthly_data[i].cumulative_customers)

\* a run under a churn rate close to 1 that lost customers every month
C9_Witness ==
    /\ frame.pc = "returned" /\ ValidProfile
    /\ frame.churn_rate = Dec(99, 1)
    /\ frame.month >= 3
    /\ Lt(Zero, frame.churned_customers)
    /\ Le(Zero, LastSnapshot.cumulative_customers)

(***************************************************************************)
(* Properties of create_forecast                                           *)
(***************************************************************************)

\* the stored query record of the request, once there is one
QueryRecord == forecast_queries[request.query_id]

\* the parser handed over an answer with all its fields
Handed ==
    /\ request.pc # "idle"
    /\ {"intent", "timeframe_months", "assumption_overrides"}
           \subseteq DOMAIN request.parsed_intent

\* C2 as stated: a validated intent whose overrides are all null ends with
\* the query record completed and a response with status completed, a
\* query_id and a result.
C2_Original ==
    (/\ request.pc = "done"
     /\ ValidateIntent(request.parsed_intent)
     /\ request.parsed_intent.assumption_overrides = NullOverrides) =>
        /\ request.response.status_code = 200
        /\ {"status", "query_id", "result"} \subseteq DOMAIN request.response
        /\ request.response.status = "completed"
        /\ request.query_id # 0 /\ QueryRecord.status = "completed"

\* C10: an intent outside the four supported ones ends in HTTP 400 from the
\* unknown-intent ValueError, with no calculator invoked, no result record
\* stored and the query record never completed.
C10_UnknownIntent ==
    (Handed /\ request.parsed_intent.intent \notin ValidIntents) =>
        /\ request.calls = <<>> /\ frame.pc = "idle"
        /\ request.pc \notin {"calculating", "calculated"}
        /\ request.pc = "raised" => request.exc = "ValueError"
        /\ request.pc = "done" => request.response.status_code = 400
        /\ \A i \in 1..Len(forecast_results) :
              forecast_results[i].query_id # request.query_id
        /\ request.query_id # 0 => QueryRecord.status # "completed"
        /\ (request.pc = "done" /\ request.query_id # 0) =>
              QueryRecord.status = "failed"

\* the orchestrator was handed an unknown intent and the request ended
C10_Witness ==
    /\ Handed /\ request.patched /\ request.pc = "done"
    /\ request.parsed_intent.intent = "forecast_profit"
    /\ request.query_id # 0 /\ QueryRecord.status = "failed"
    /\ request.exc = "ValueError"
    /\ request.response.status_code = 400

\* C11 as stated: a request that stored a query record and then failed leaves
\* the record failed, and no request finishes, with a response or an error,
\* while its record is still processing.
C11_Original ==
    (request.pc = "done" /\ request.forecast_query = "row") =>
        /\ QueryRecord.status # "processing"
        /\ request.response.status_code # 200 => QueryRecord.status = "failed"

\* the values the data model documents for ForecastQuery.status
StatusValues == {"pending", "processing", "completed", "failed"}

\* a step a status may take
StatusStep(old, new) ==
    \/ old = new
    \/ old = "pending" /\ new = "processing"
    \/ old = "processing" /\ new \in {"completed", "failed"}

\* C12: every stored query record has one of the four statuses, is created
\* pending or processing, keeps its place in the table, and its status only
\* moves pending -> processing -> completed | failed; a completed or failed
\* record never changes its status again.
C12_StatusTransitions ==
    [][/\ Len(forecast_queries') >= Len(forecast_queries)
       /\ \A i \in 1..Len(forecast_queries') :
             /\ forecast_queries'[i].status \in StatusValues
             /\ i <= Len(forecast_queries) =>
                   StatusStep(forecast_queries[i].status, forecast_queries'[i].status)
             /\ i > Len(forecast_queries) =>
                   forecast_queries'[i].status \in {"pending", "processing"}]_vars

\* a record that was processing has been marked failed after a failed commit
\* of the result
C12_Witness ==
    /\ request.pc = "done" /\ request.forecast_query = "row"
    /\ request.exc = "SQLAlchemyError"
    /\ QueryRecord.status = "failed"

\* a calculator raised TypeError: at the call (an unexpected keyword) or in
\* its loop (a string for arpu)
CalculatorRaised ==
    /\ request.pc \in {"raised", "done"}
    /\ request.exc = "TypeError"
    /\ ~SwallowsErrors(deployment.router)

\* C13: when a calculator raises an unexpected exception the request ends
\* with HTTP 500 and no forecast result record exists for its query.
C13_CalculatorFault ==
    CalculatorRaised =>
        /\ request.pc = "done" => request.response.status_code = 500
        /\ request.result_data = <<>>
        /\ \A i \in 1..Len(forecast_results) :
              forecast_results[i].query_id # request.query_id

\* the SMB calculator was entered and raised in its loop; the request ended
C13_Witness ==
    /\ CalculatorRaised /\ request.pc = "done"
    /\ request.calls = <<"smb">>
    /\ request.parsed_intent.assumption_overrides = TextOverrides
    /\ request.response.status_code = 500
    /\ forecast_results = <<>>

\* the request ended, and what it was handed had passed the parser's validation
EndedValid(intent) ==
    /\ request.pc = "done"
    /\ ValidateIntent(request.parsed_intent)
    /\ request.parsed_intent.intent = intent

\* C14 as stated: for forecast_total_revenue both calculators run over the
\* same horizon, every merged entry carries the two month-i revenues and
\* their sum, and the summary's total is the sum of its two segment totals
\* and of the monthly totals.
C14_Original ==
    EndedValid("forecast_total_revenue") =>
        /\ request.calls = <<"large", "smb">>
        /\ request.response.status_code = 200
        /\ LET result == request.response.result
               months == request.parsed_intent.timeframe_months
           IN  /\ Len(request.large_data) = months
               /\ Len(request.smb_data) = months
               /\ Len(result.monthly_data) = months
               /\ \A i \in 1..months :
                     LET entry == result.monthly_data[i]
                     IN  /\ entry.large_customer_revenue = request.large_data[i].revenue
                         /\ entry.smb_customer_revenue = request.smb_data[i].revenue
                         /\ entry.total_revenue =
                               Add(request.large_data[i].revenue,
                                   request.smb_data[i].revenue)
               /\ result.summary.total_revenue =
                     Add(result.summary.large_customer_revenue,
                         result.summary.smb_customer_revenue)
               /\ result.summary.total_revenue =
                     SumField(result.monthly_data, "total_revenue")

\* C15 as stated: forecast_large_revenue runs the enterprise calculator only
\* and forecast_smb_revenue the SMB calculator only; the result's
\* monthly_data is that calculator's output, summary.total_revenue the sum of
\* its revenues and summary.total_customers the last month's
\* cumulative_customers.
C15_Original ==
    \A kind \in {"large", "smb"} :
        EndedValid(IF kind = "large" THEN "forecast_large_revenue"
                   ELSE "forecast_smb_revenue") =>
            /\ request.calls = <<kind>>
            /\ request.response.status_code = 200
            /\ LET result == request.response.result
                   data   == IF kind = "large" THEN request.large_data
                             ELSE request.smb_data
               IN  /\ Len(data) = request.parsed_intent.timeframe_months
                   /\ result.monthly_data = data
                   /\ result.summary.total_revenue = SumRevenue(data)
                   /\ result.summary.total_customers =
                         data[Len(data)].cumulative_customers

\* every field of the overrides is absent or null
OverridesNothing(overrides) ==
    \A unit \in DOMAIN overrides :
        \A name \in DOMAIN overrides[unit] : IsNone(overrides[unit][name])

\* C16 as stated: explain_assumptions invokes no calculator and returns the
\* effective parameter set, which is the default profiles unmodified when the
\* intent overrides nothing.
C16_Original ==
    EndedValid("explain_assumptions") =>
        /\ request.calls = <<>>
        /\ request.response.status_code = 200
        /\ request.response.result.assumptions = request.updated_assumptions
        /\ OverridesNothing(request.parsed_intent.assumption_overrides) =>
              request.response.result.assumptions = GetAssumptions

\* C17 as stated: a forecast reported completed with monthly data was
\* computed over a horizon h with 1 <= h <= 36 and has exactly h monthly
\* entries, so its monthly data is not empty.
C17_Original ==
    (simple.pc = "done" /\ simple.response.status_code = 200) =>
        /\ simple.response.status = "completed"
        /\ simple.assumptions.forecast_period_months \in 1..36
        /\ Len(simple.response.forecast_data) =
              simple.assumptions.forecast_period_months
        /\ simple.response.forecast_data # <<>>

\* the real parser was called and given an answer it rejects
ParserFailed ==
    /\ request.pc \in {"raised", "done"}
    /\ ~request.patched
    /\ DOMAIN request.parsed_intent # {}
    /\ ParseQueryRaises(request.parsed_intent)

Alone(parsed) ==
    LET updated == UpdateAssumptions(parsed.assumption_overrides)
        months  == parsed.timeframe_months
        branch  == IntentBranch(parsed.intent)
        largeOk == DOMAIN updated.large_customer \subseteq LargeParams
        smbOk   == DOMAIN updated.smb_customer \subseteq SMBParams
        large   == RunAlone(LargeCustomerCalculator,
                       LargeEnter(LargeCustomerCalculator, "router", months,
                                  updated.large_customer))
        smb     == RunAlone(SMBCalculator,
                       SMBEnter(SMBCalculator, "router", months, updated.smb_customer))
        raised  == [exc |-> "TypeError", result |-> <<>>, assumptions |-> updated]
    IN  CASE branch = "total" ->
                 IF largeOk /\ smbOk
                 THEN [exc |-> "none", assumptions |-> updated,
                       result |-> TotalResult(months, large, smb, updated)]
                 ELSE raised
          [] branch = "large" ->
                 IF largeOk
                 THEN [exc |-> "none", assumptions |-> updated,
                       result |-> SegmentResult("large_customer_revenue", months, large)]
                 ELSE raised
          [] branch = "smb" ->
                 IF smbOk
                 THEN [exc |-> "none", assumptions |-> updated,
                       result |-> SegmentResult("smb_customer_revenue", months, smb)]
                 ELSE raised
          [] branch = "explain" ->
                 [exc |-> "none", assumptions |-> updated,
                  result |-> ExplainResult(updated)]
          [] OTHER -> [exc |-> "ValueError", result |-> <<>>, assumptions |-> updated]

\* the request is past _execute_calculation
Executed(r) == r.pc \in {"calculated", "raised", "done"} /\ r.query_id # 0

\* C19: under every interleaving of concurrent requests at their await
\* points, the calculators keep the defaults they were constructed with, and
\* every request's result, assumptions_used and exception, and every stored
\* result, are those the request yields when it runs alone.
C19_Isolation ==
    /\ large_calculator = LargeCustomerCalculator
    /\ smb_calculator = SMBCalculator
    /\ \A r \in suspended \cup {request} :
          Executed(r) =>
              LET alone == Alone(r.parsed_intent)
              IN  /\ r.exc = alone.exc
                  /\ r.result_data = alone.result
                  /\ r.assumptions_used = alone.assumptions
                  /\ (r.pc = "done" /\ r.exc = "none") =>
                        /\ r.response.result = alone.result
                        /\ r.response.assumptions_used = alone.assumptions
    /\ \A i \in 1..Len(forecast_results) :
          LET alone == Alone(forecast_queries[forecast_results[i].query_id].parsed_intent)
          IN  /\ forecast_results[i].result = alone.result
              /\ forecast_results[i].assumptions_used = alone.assumptions

\* a request with a spend override ran its calculator while a request
\* without one was waiting, which then ran and finished with its own result
C19_Witness ==
    /\ deployment.concurrent
    /\ request.pc = "done" /\ request.exc = "none"
    /\ request.parsed_intent.intent = "forecast_smb_revenue"
    /\ request.parsed_intent.assumption_overrides = NullOverrides
    /\ request.query_id = 1
    /\ Len(forecast_results) = 2
    /\ forecast_results[1].query_id = 2
    /\ forecast_queries[2].parsed_intent.intent = "forecast_smb_revenue"
    /\ forecast_queries[2].parsed_intent.assumption_overrides = SpendOverrides

\* calculate(timeframe_months=12) of the enterprise calculator with no
\* parameter passed
DefaultYear ==
    /\ frame.kind = "large"
    /\ frame.timeframe_months = 12
    /\ \A name \in DOMAIN frame.args : IsNone(frame.args[name])

\* C20: the enterprise calculator run for 12 months on its defaults gives
\* month 1 new_customers 1, cumulative_customers 1 and revenue 16667, month 11
\* new_customers 9, and month 12 new_customers 9 * 1.05.
C20_DefaultYear ==
    DefaultYear =>
        LET data == frame.monthly_data
        IN  /\ Len(data) >= 1 =>
                  /\ data[1].new_customers = Dec(1, 0)
                  /\ data[1].cumulative_customers = Dec(1, 0)
                  /\ data[1].revenue = Dec(16667, 0)
            /\ Len(data) >= 11 => data[11].new_customers = Dec(9, 0)
            /\ Len(data) >= 12 =>
                  data[12].new_customers = Mul(Dec(9, 0), Dec(105, 1))

\* the default run has produced its twelfth snapshot
C20_Witness ==
    /\ DefaultYear
    /\ frame.month = 12
    /\ Len(frame.monthly_data) = 12
    /\ frame.monthly_data[12].month = 12
    /\ frame.monthly_data[12].new_customers = Dec(945, 1)

\* calculate(timeframe_months=6) of the SMB calculator with no parameter passed
DefaultHalfYear ==
    /\ frame.kind = "smb"
    /\ frame.timeframe_months = 6
    /\ \A name \in DOMAIN frame.args : IsNone(frame.args[name])

\* C21: the SMB calculator run for 6 months on its defaults gives month 1
\* leads (marketing_spend / cac) 160, new_customers 72, cumulative_customers
\* 72 and revenue 360000, and month 2 marketing_spend 206000.
C21_DefaultHalfYear ==
    DefaultHalfYear =>
        LET data == frame.monthly_data
        IN  /\ Len(data) >= 1 =>
                  /\ Div(data[1].marketing_spend, data[1].cac) = Dec(160, 0)
                  /\ data[1].new_customers = Dec(72, 0)
                  /\ data[1].cumulative_customers = Dec(72, 0)
                  /\ data[1].revenue = Dec(360000, 0)
            /\ Len(data) >= 2 => data[2].marketing_spend = Dec(206000, 0)

\* the default run has produced its sixth snapshot
C21_Witness ==
    /\ DefaultHalfYear
    /\ frame.month = 6
    /\ Len(frame.monthly_data) = 6
    /\ frame.monthly_data[1].new_customers = Dec(72, 0)
    /\ frame.monthly_data[2].marketing_spend = Dec(206000, 0)

\* the profile in effect in a run: growth_rate > churn_rate, 0 <= churn_rate < 1
\* and arpu > 0
GrowingProfile ==
    /\ frame.kind \in {"large", "smb"}
    /\ Lt(frame.churn_rate, frame.growth_rate)
    /\ Le(Zero, frame.churn_rate) /\ Lt(frame.churn_rate, One)
    /\ Lt(Zero, frame.arpu)

\* C22: for either calculator, under a profile with growth_rate > churn_rate,
\* 0 <= churn_rate < 1 and arpu > 0 the snapshots' revenue never decreases
\* from one month to the next; with the enterprise defaults over 12 months
\* the last month's revenue is greater than the first month's.
C22_RevenueMonotone ==
    LET data == frame.monthly_data
    IN  /\ GrowingProfile =>
              \A i \in 1..(Len(data) - 1) : Le(data[i].revenue, data[i + 1].revenue)
        /\ (DefaultYear /\ Len(data) = 12) => Lt(data[1].revenue, data[12].revenue)

\* a run of each kind past its first months under an overridden growing
\* profile, and the default enterprise year complete
C22_Witness ==
    /\ GrowingProfile
    /\ ~IsNone(frame.args.growth_rate) /\ ~IsNone(frame.args.churn_rate)
    /\ \/ frame.kind = "large" /\ Len(frame.monthly_data) = 13
       \/ frame.kind = "smb" /\ Len(frame.monthly_data) = 6
    /\ Lt(frame.monthly_data[1].revenue, frame.monthly_data[2].revenue)

\* the call that just returned is the one whose list the caller has kept
SameCall ==
    /\ frame.pc = "returned"
    /\ Repeating
    /\ previous.kind = frame.kind
    /\ previous.args = frame.args
    /\ previous.timeframe_months = frame.timeframe_months

\* C23: a call of calculate returns the list that an earlier call with the
\* same arguments returned, whatever calls were made in between, and the
\* calculators' stored defaults stay those of their constructors.
C23_Idempotent ==
    /\ large_calculator = LargeCustomerCalculator
    /\ smb_calculator = SMBCalculator
    /\ SameCall => frame.monthly_data = previous.monthly_data

\* a default call repeated after calls were made, with the list of the
\* earlier call at hand
C23_Witness ==
    /\ SameCall
    /\ frame.kind = "smb"
    /\ IsNone(frame.args.arpu)
    /\ Len(frame.monthly_data) = 2
    /\ frame.monthly_data[2].revenue = previous.monthly_data[2].revenue

\* C24 as stated, for the simplified endpoint: a request whose query is the
\* empty string is answered with the client error 400 and no forecast is
\* computed.
C24_Original ==
    (simple.pc = "done" /\ simple.query.time = "empty") =>
        /\ simple.response.status_code = 400
        /\ simple.forecast_data = <<>>

\* a forecast result record is stored for the query
HasResult(query_id) ==
    \E j \in 1..Len(forecast_results) : forecast_results[j].query_id = query_id

EchoedSMB == {"arpu", "cac", "conversion_rate", "growth_rate", "churn_rate"}

\* C28 as stated: for a completed forecast_smb_revenue run, assumptions_used
\* gives for every SMB parameter the value the calculator used and echoed in
\* its snapshots, also when the parsed intent carries null for the field.
C28_Original ==
    (EndedValid("forecast_smb_revenue") /\ request.exc = "none") =>
        LET used == request.response.assumptions_used.smb_customer
            data == request.response.result.monthly_data
        IN  /\ \A name \in EchoedSMB : used[name] = data[1][name]
            /\ used.marketing_spend = data[1].marketing_spend

\* C25 as stated: an export of a forecast whose query or whose stored result
\* is missing is answered with 404
C25_Original ==
    reply.endpoint = "export" =>
        ((\/ Len(Rows(forecast_queries, "id", reply.query_id)) = 0
          \/ Len(Rows(forecast_results, "query_id", reply.query_id)) = 0)
            => reply.response.status_code = 404)

\* C25: export_forecast_to_excel schedules a generate_excel_report task only
\* when the forecast query and a stored result for it exist (and, in the
\* router of backend, the query is the caller's); it then answers with status
\* 'processing' while the task is still only scheduled. A missing query is
\* answered 404, another user's query 403 in the router of backend, a missing
\* result of a readable query 404, and none of these schedules a task.
C25_Export ==
    [][(reply'.seq # reply.seq /\ reply'.endpoint = "export") =>
          LET found   == Rows(forecast_queries, "id", reply'.query_id)
              results == Rows(forecast_results, "query_id", reply'.query_id)
              foreign == /\ Len(found) > 0
                         /\ ChecksOwner(deployment.router)
                         /\ found[1].user_id # reply'.user
          IN  IF Len(found) > 0 /\ Len(results) > 0 /\ ~foreign
              THEN /\ reply'.response.status_code = 200
                   /\ reply'.response.status = "processing"
                   /\ Len(background_tasks') = Len(background_tasks) + 1
                   /\ background_tasks'[Len(background_tasks')].state = "scheduled"
                   /\ background_tasks'[Len(background_tasks')].query_id = reply'.query_id
                   /\ background_tasks'[Len(background_tasks')].forecast_data
                          = results[1].result
              ELSE /\ background_tasks' = background_tasks
                   /\ reply'.response.status_code =
                          IF Len(found) = 0 THEN 404
                          ELSE IF foreign THEN 403 ELSE 404]_vars

\* an export was acknowledged while its task had not run, and another was
\* refused for a missing result
C25_Witness ==
    /\ reply.endpoint = "export"
    /\ reply.response.status_code = 404
    /\ Len(Rows(forecast_queries, "id", reply.query_id)) > 0
    /\ Len(background_tasks) = 1
    /\ background_tasks[1].state = "scheduled"

\* C26 as stated: the monthly data sheet of a generated report has one row per
\* metric and one column per monthly entry of the forecast, each holding that
\* month's value of the row's metric
C26_Original ==
    \A i \in 1..Len(background_tasks) :
        background_tasks[i].state = "completed" =>
            LET monthly_data == background_tasks[i].forecast_data.monthly_data
                sheet == background_tasks[i].monthly_sheet
            IN  /\ Len(sheet) = Len(Metrics)
                /\ \A row \in 1..Len(sheet) :
                      /\ Len(sheet[row]) = Len(monthly_data)
                      /\ \A col \in 1..Len(sheet[row]) :
                            sheet[row][col] = MetricValue(monthly_data[col], Metrics[row])

\* C29: in the router of backend, a get_forecast or an export of a forecast
\* query of another user is answered 403 and schedules no task, every answer
\* of get_forecast that carries a result is about a query of the caller, and
\* list_forecasts returns only the caller's queries
C29_OwnForecastsOnly ==
    [][(reply'.seq # reply.seq /\ ChecksOwner(deployment.router)) =>
          LET found   == Rows(forecast_queries, "id", reply'.query_id)
              foreign == Len(found) > 0 /\ found[1].user_id # reply'.user
              asked   == reply'.response
          IN  /\ reply'.endpoint = "get" =>
                    /\ foreign => asked = ErrorResponse(403)
                    /\ asked.status_code = 200 =>
                          Len(found) > 0 /\ found[1].user_id = reply'.user
              /\ reply'.endpoint = "export" =>
                    /\ foreign => asked = ErrorResponse(403)
                    /\ foreign => background_tasks' = background_tasks
                    /\ Len(background_tasks') > Len(background_tasks) =>
                          Len(found) > 0 /\ found[1].user_id = reply'.user
              /\ reply'.endpoint = "list" =>
                    \A i \in 1..Len(asked.responses) :
                        \E q \in 1..Len(forecast_queries) :
                            /\ forecast_queries[q].id = asked.responses[i].query_id
                            /\ forecast_queries[q].user_id = reply'.user]_vars

\* user 1 asked for the export of the completed forecast of user 2 and was
\* refused
C29_Witness ==
    /\ ChecksOwner(deployment.router)
    /\ reply.seq = 2
    /\ reply.endpoint = "export"
    /\ reply.user = 1
    /\ reply.query_id = 2
    /\ Len(Rows(forecast_results, "query_id", 2)) > 0
    /\ reply.response = ErrorResponse(403)
    /\ background_tasks = <<>>

\* C30 as stated: a registration of an email that is already stored is
\* answered 400 and changes no stored user, no email has an account in both
\* stores of simple_main, and the users of AuthService have distinct ids
C30_Original ==
    [][reply'.seq # reply.seq =>
          /\ (/\ reply'.endpoint = "register"
              /\ reply'.email \in DOMAIN auth_service.users_db)
                => reply'.response.status_code = 400 /\ UNCHANGED auth_service
          /\ (/\ reply'.endpoint = "simple_register"
              /\ \/ reply'.email \in DOMAIN simple_users.users_db
                 \/ reply'.email \in DOMAIN simple_users.supabase)
                => reply'.response.status_code = 400 /\ UNCHANGED simple_users
          /\ \A e \in Emails :
                ~(e \in DOMAIN simple_users'.users_db /\ e \in DOMAIN simple_users'.supabase)
          /\ \A d, e \in DOMAIN auth_service'.users_db :
                auth_service'.users_db[d].id = auth_service'.users_db[e].id => d = e]_vars

====
